---- MODULE Spec2Model ----
(***************************************************************************)
(* A model of gammapy/detect/test_statistics.py: the TS image estimator    *)
(* (TSImageEstimator.run and _ts_value), the three amplitude solvers and   *)
(* the multiscale driver.                                                  *)
(*                                                                         *)
(* Numbers.  A float is a record [k, v]: k = "num" with the integer v,     *)
(* k = "nan", or k = "inf" with the sign v.  Fit statistics are held in    *)
(* hundredths (ln is the table Ln100).  FLUX_FACTOR is 1e-12 in the        *)
(* source; a 32-bit integer cannot hold its inverse, so the model keeps    *)
(* the conversion but with the inverse FLUX_FACTOR_INV: an amplitude x     *)
(* stands for the flux x / FLUX_FACTOR_INV.                                *)
(*                                                                         *)
(* External numerics.  scipy's brentq and newton and the compiled          *)
(* least-squares estimate are deterministic functions of their arguments   *)
(* whose values the source does not fix.  An "outcome" record stands for   *)
(* what such a call yields on given arguments; it is drawn once per        *)
(* distinct argument and remembered (variable oracle), so the same slice   *)
(* always gets the same answer.                                            *)
(***************************************************************************)
EXTENDS Integers, Sequences, FiniteSets, TLC

FLUX_FACTOR_INV == 1000
MAX_NITER == 20

\* Bounds of the model: the width of the input images (they have one row) and
\* the largest amplitude, in units of FLUX_FACTOR_INV, of the solvers' grid.
ImgW == 2
MaxAmp == 1

Max(a, b) == IF a >= b THEN a ELSE b
Min(a, b) == IF a <= b THEN a ELSE b

(***************************************************************************)
(* IEEE floats as numpy computes with them (errstate ignore).              *)
(***************************************************************************)
Num(v) == [k |-> "num", v |-> v]
NaN == [k |-> "nan", v |-> 0]
Inf(s) == [k |-> "inf", v |-> s]
isnan(x) == x.k = "nan"
Sgn(n) == IF n > 0 THEN 1 ELSE IF n < 0 THEN -1 ELSE 0

FNeg(x) == IF x.k = "nan" THEN NaN ELSE [k |-> x.k, v |-> -x.v]

FAdd(x, y) ==
    IF x.k = "nan" \/ y.k = "nan" THEN NaN
    ELSE IF x.k = "inf" /\ y.k = "inf" THEN (IF x.v = y.v THEN x ELSE NaN)
    ELSE IF x.k = "inf" THEN x
    ELSE IF y.k = "inf" THEN y
    ELSE Num(x.v + y.v)

FSub(x, y) == FAdd(x, FNeg(y))

FMul(x, y) ==
    IF x.k = "nan" \/ y.k = "nan" THEN NaN
    ELSE IF x.k = "inf" \/ y.k = "inf"
         THEN (IF Sgn(x.v) * Sgn(y.v) = 0 THEN NaN ELSE Inf(Sgn(x.v) * Sgn(y.v)))
    ELSE Num(x.v * y.v)

\* x < y; every comparison with NaN is false.
FLt(x, y) ==
    IF x.k = "nan" \/ y.k = "nan" THEN FALSE
    ELSE IF x.k = "inf" THEN (x.v < 0 /\ ~(y.k = "inf" /\ y.v < 0))
    ELSE IF y.k = "inf" THEN y.v > 0
    ELSE x.v < y.v

\* The sign left out: 1 for every number.
nosign(x) == IF x.k = "nan" THEN NaN ELSE Num(1)

\* np.sign
sign(x) == IF x.k = "nan" THEN NaN ELSE Num(Sgn(x.v))

\* Python's max(a, b): b when b > a, else a (so a NaN first argument stays).
PyMax(a, b) == IF FLt(a, b) THEN b ELSE a

\* The integer square root, for np.sqrt on scaled integers.
ISqrt(n) == CHOOSE r \in 0..(n + 1) : r * r <= n /\ n < (r + 1) * (r + 1)

\* 100 * ln(m), rounded, for the model values the bounds allow.
Ln100(m) ==
    CASE m = 1 -> 0   [] m = 2 -> 69  [] m = 3 -> 110 [] m = 4 -> 139
      [] m = 5 -> 161 [] m = 6 -> 179 [] m = 7 -> 195 [] m = 8 -> 208
      [] OTHER -> 230

(***************************************************************************)
(* Arrays: functions from pixel <<row, col>> (0-based) to a value.         *)
(***************************************************************************)
Pixels(shape) == (0..(shape[1] - 1)) \X (0..(shape[2] - 1))

RECURSIVE SumInt(_, _)
SumInt(f, S) ==
    IF S = {} THEN 0
    ELSE LET p == CHOOSE q \in S : TRUE IN f[p] + SumInt(f, S \ {p})

RECURSIVE SumFloat(_, _)
SumFloat(f, S) ==
    IF S = {} THEN Num(0)
    ELSE LET p == CHOOSE q \in S : TRUE IN FAdd(f[p], SumFloat(f, S \ {p}))

\* A numpy slice lo:hi of an axis of length n: the indices it selects.
SliceIndices(lo, hi, n) ==
    LET a == IF lo < 0 THEN Max(lo + n, 0) ELSE Min(lo, n)
        b == IF hi < 0 THEN Max(hi + n, 0) ELSE Min(hi, n)
    IN  a..(b - 1)

\* _extract_array: array[y_lo:y_hi, x_lo:x_hi], both widths from shape[0]; the
\* result, a record [shape, data], is indexed from <<0, 0>>.
_extract_array(array, ashape, shape, position) ==
    LET x_width == shape[1] \div 2
        y_width == shape[1] \div 2
        rows == SliceIndices(position[1] - y_width, position[1] + y_width + 1, ashape[1])
        cols == SliceIndices(position[2] - x_width, position[2] + x_width + 1, ashape[2])
        r0 == IF rows = {} THEN 0 ELSE CHOOSE r \in rows : \A q \in rows : r <= q
        c0 == IF cols = {} THEN 0 ELSE CHOOSE c \in cols : \A q \in cols : c <= q
    IN  [shape |-> <<Cardinality(rows), Cardinality(cols)>>,
         data |-> [p \in (0..(Cardinality(rows) - 1)) \X (0..(Cardinality(cols) - 1))
                     |-> array[<<r0 + p[1], c0 + p[2]>>]]]

(***************************************************************************)
(* The fit statistic.                                                      *)
(***************************************************************************)
\* One pixel of the Cash statistic, 2 * (model - counts * ln(model)), in
\* hundredths; a model value <= 0 gives inf or NaN, as the float formula does.
cash(c, mu) ==
    IF mu.k # "num" THEN NaN
    ELSE IF mu.v > 0 THEN Num(2 * (100 * mu.v - c * Ln100(mu.v)))
    ELSE IF mu.v = 0 /\ c > 0 THEN Inf(1)
    ELSE NaN

\* _cash_cython(counts, model): the statistic per pixel.
_cash_cython(counts, model) ==
    [p \in DOMAIN counts |-> cash(counts[p], Num(model[p]))]

\* _cash_sum_cython(counts, model): the statistic summed over the slice; the
\* model values are floats.
_cash_sum_cython(counts, model) ==
    SumFloat([p \in DOMAIN counts |-> cash(counts[p], model[p])], DOMAIN counts)

\* x * FLUX_FACTOR for an amplitude x on the model's grid (a float).
TimesFluxFactor(x) ==
    IF x.k = "num" THEN Num(x.v \div FLUX_FACTOR_INV) ELSE x

\* f_cash: the statistic of background + x * FLUX_FACTOR * model.
f_cash(x, counts, background, model) ==
    _cash_sum_cython(counts,
        [p \in DOMAIN counts |->
            FAdd(Num(background[p]), FMul(TimesFluxFactor(x), Num(model[p])))])

(***************************************************************************)
(* The amplitude solvers.                                                  *)
(***************************************************************************)
Amps == {a * FLUX_FACTOR_INV : a \in (-MaxAmp)..MaxAmp}
Fluxes == (-MaxAmp)..MaxAmp
\* Iteration counts sampled from 1..MAX_NITER; the least-squares loop cannot
\* stop in its first pass (x_old = 0 makes the relative change 1).
SampleIters == {1, MAX_NITER}
LsqIters == {2, MAX_NITER}

\* What the external numerics yield for one slice: the root finder or the
\* least-squares loop ("converged" with the value x after iters iterations,
\* "noconverge", or "nobracket" for brentq's sign test), and whether the
\* profile search of _compute_amplitude_err_profile finds its root.
NoSearch == [kind |-> "none", x |-> 0, iters |-> 0]
SearchOutcomes(method) ==
    IF method = "root brentq"
    THEN [kind : {"converged"}, x : Amps, iters : SampleIters]
         \cup {[kind |-> "noconverge", x |-> 0, iters |-> MAX_NITER],
               [kind |-> "nobracket", x |-> 0, iters |-> MAX_NITER]}
    ELSE IF method = "root newton"
    THEN [kind : {"converged"}, x : Amps, iters : {1}]
         \cup {[kind |-> "noconverge", x |-> 0, iters |-> MAX_NITER]}
    ELSE [kind : {"converged"}, x : Fluxes, iters : LsqIters]
         \cup [kind : {"noconverge"}, x : Fluxes, iters : {MAX_NITER}]

\* _amplitude_bounds_cython: of the three bounds only amplitude_min_total is
\* computed here, the lowest amplitude keeping background + x * FLUX_FACTOR *
\* model >= 0 on every pixel; the bracket [amplitude_min, amplitude_max] only
\* feeds brentq, whose answer is the outcome.
_amplitude_bounds_cython(counts, background, model) ==
    LET pos == {p \in DOMAIN model : model[p] > 0}
        lim(p) == -((background[p] * FLUX_FACTOR_INV) \div model[p])
    IN  [amplitude_min_total |->
            IF pos = {} THEN -(MaxAmp + 1) * FLUX_FACTOR_INV
            ELSE CHOOSE m \in {lim(p) : p \in pos} : \A p \in pos : lim(p) <= m]

\* scipy.optimize.brentq(..., maxiter=MAX_NITER, full_output=True)
brentq(o) ==
    IF o.kind = "converged" THEN [raised |-> "", root |-> o.x, iterations |-> o.iters]
    ELSE IF o.kind = "nobracket" THEN [raised |-> "ValueError", root |-> 0, iterations |-> 0]
    ELSE [raised |-> "RuntimeError", root |-> 0, iterations |-> 0]

\* scipy.optimize.newton(..., maxiter=MAX_NITER)
newton(x0, o) ==
    IF o.kind = "converged" THEN [raised |-> "", root |-> o.x]
    ELSE [raised |-> "RuntimeError", root |-> 0]

\* _root_amplitude_brentq
_root_amplitude_brentq(counts, background, model, o) ==
    LET amplitude_min_total ==
            _amplitude_bounds_cython(counts, background, model).amplitude_min_total
        res == brentq(o)
    IN  IF ~(SumInt(counts, DOMAIN counts) > 0)
        THEN [amplitude |-> Num(amplitude_min_total), niter |-> 0]
        ELSE IF res.raised = ""
        THEN [amplitude |-> Num(Max(res.root, amplitude_min_total)),
              niter |-> res.iterations]
        ELSE [amplitude |-> NaN, niter |-> MAX_NITER]

\* _root_amplitude (Newton)
_root_amplitude(counts, background, model, x0, o) ==
    LET res == newton(x0, o)
    IN  IF res.raised = ""
        THEN [amplitude |-> Num(res.root), niter |-> 0]
        ELSE [amplitude |-> NaN, niter |-> MAX_NITER]

\* _leastsq_iter_amplitude: o.x is the last estimate x of the loop, o.iters the
\* pass (i + 1) at which the relative change fell below rtol.
_leastsq_iter_amplitude(counts, background, model, o) ==
    LET amplitude_min_total ==
            _amplitude_bounds_cython(counts, background, model).amplitude_min_total
    IN  IF ~(SumInt(counts, DOMAIN counts) > 0)
        THEN [amplitude |-> Num(amplitude_min_total), niter |-> 0]
        ELSE IF o.kind = "converged"
        THEN [amplitude |-> Num(Max(o.x * FLUX_FACTOR_INV, amplitude_min_total)),
              niter |-> o.iters]
        ELSE [amplitude |-> Num(Max(o.x * FLUX_FACTOR_INV, amplitude_min_total)),
              niter |-> MAX_NITER]

\* _compute_amplitude_err: sqrt(1 / sum(model^2 * counts / (background + x *
\* FLUX_FACTOR * model)^2)), in tenths.  With a single term n/d the value is
\* sqrt(d/n); several terms are added over their common denominator.
RECURSIVE StatSum(_, _, _)
StatSum(n, d, S) ==
    IF S = {} THEN [n |-> 0, d |-> 1]
    ELSE LET p == CHOOSE q \in S : TRUE
             r == StatSum(n, d, S \ {p})
         IN  [n |-> n[p] * r.d + r.n * d[p], d |-> d[p] * r.d]

_compute_amplitude_err(x, counts, background, model) ==
    LET D == DOMAIN counts
        mu == [p \in D |-> background[p] + (x.v \div FLUX_FACTOR_INV) * model[p]]
        live == {p \in D : model[p] * model[p] * counts[p] # 0}
        s == StatSum([p \in D |-> model[p] * model[p] * counts[p]],
                     [p \in D |-> mu[p] * mu[p]], live)
    IN  IF x.k # "num" THEN NaN
        ELSE IF \E p \in D : mu[p] = 0 /\ model[p] * model[p] * counts[p] = 0 THEN NaN
        ELSE IF \E p \in live : mu[p] = 0 THEN Num(0)
        ELSE IF s.n = 0 THEN Inf(1)
        ELSE Num(ISqrt((100 * s.d) \div s.n))

\* _compute_amplitude_err_profile: brentq on ts_diff over [amplitude,
\* amplitude + 1e4]; the root found is one grid step above the amplitude.
_compute_amplitude_err_profile(amplitude, counts, background, model, c_1, prof) ==
    IF amplitude.k # "num" \/ prof # "ok" THEN NaN
    ELSE Num((amplitude.v + FLUX_FACTOR_INV) - amplitude.v)

(***************************************************************************)
(* _ts_value: one pixel.                                                   *)
(***************************************************************************)
None == [k |-> "none", v |-> 0]
NoArray == [shape |-> <<0, 0>>, data |-> <<>>]

\* The kernel: a CustomKernel of the given (odd) shape, here of ones.
Kernel(shape) == [shape |-> shape, array |-> [p \in Pixels(shape) |-> 1]]

\* exposure_ * kernel._array with numpy's broadcasting of 2D shapes.
Multiply(a, b) ==
    LET ok(i) == a.shape[i] = b.shape[i] \/ a.shape[i] = 1 \/ b.shape[i] = 1
        dim(i) == IF a.shape[i] = 1 THEN b.shape[i] ELSE a.shape[i]
        ix(arr, p, i) == IF arr.shape[i] = 1 THEN 0 ELSE p[i]
        shape == <<dim(1), dim(2)>>
    IN  IF ~(ok(1) /\ ok(2)) THEN [raised |-> "ValueError", shape |-> <<0, 0>>, data |-> <<>>]
        ELSE [raised |-> "", shape |-> shape,
              data |-> [p \in Pixels(shape) |->
                          a.data[<<ix(a, p, 1), ix(a, p, 2)>>]
                            * b.data[<<ix(b, p, 1), ix(b, p, 2)>>]]]

\* What _ts_value hands back: the dict of lines 467-473, the tuple of line 453,
\* or an exception.
Dict(ts, fl, niter, ferr, fprof) ==
    [kind |-> "dict", ts |-> ts, flux |-> fl, niter |-> niter, flux_err |-> ferr,
     flux_err_profile |-> fprof, exc |-> ""]
Tuple(ts, fl, niter) ==
    [kind |-> "tuple", ts |-> ts, flux |-> fl, niter |-> niter, flux_err |-> NaN,
     flux_err_profile |-> NaN, exc |-> ""]
Raise(exc) ==
    [kind |-> "raise", ts |-> NaN, flux |-> NaN, niter |-> 0, flux_err |-> NaN,
     flux_err_profile |-> NaN, exc |-> exc]
Pending ==
    [kind |-> "pending", ts |-> NaN, flux |-> NaN, niter |-> 0, flux_err |-> NaN,
     flux_err_profile |-> NaN, exc |-> ""]

Methods == {"root brentq", "root newton", "leastsq iter"}

\* The solver dispatch of lines 455-462.
Solve(method, counts_, background_, model, x0, o) ==
    IF method = "root brentq" THEN _root_amplitude_brentq(counts_, background_, model, o)
    ELSE IF method = "root newton" THEN _root_amplitude(counts_, background_, model, x0, o)
    ELSE _leastsq_iter_amplitude(counts_, background_, model, o)

\* The outcomes the external numerics can have on a slice: no root search is
\* made where the solver returns before it, and the profile search cannot
\* succeed from a NaN amplitude.
Outcomes(method, counts_) ==
    LET searches ==
            IF method # "root newton" /\ ~(SumInt(counts_, DOMAIN counts_) > 0)
            THEN {NoSearch} ELSE SearchOutcomes(method)
    IN  {[kind |-> s.kind, x |-> s.x, iters |-> s.iters, prof |-> pr] :
            s \in searches, pr \in {"ok", "fail"}}
        \ {r \in [kind : {"noconverge", "nobracket"}, x : {0}, iters : {MAX_NITER},
                  prof : {"ok"}] : method # "leastsq iter"}

_ts_value(position, counts, exposure, background, c_0_image, kernel, flux_, method, threshold, o) ==
    LET counts_ == _extract_array(counts.data, counts.shape, kernel.shape, position)
        background_ == _extract_array(background.data, background.shape, kernel.shape, position)
        exposure_ == _extract_array(exposure.data, exposure.shape, kernel.shape, position)
        c_0_ == _extract_array(c_0_image.data, c_0_image.shape, kernel.shape, position)
        model == Multiply(exposure_, [shape |-> kernel.shape, data |-> kernel.array])
        c_0 == SumFloat(c_0_.data, DOMAIN c_0_.data)
        seed == flux_.data[position]
        gap == FSub(c_0, f_cash(seed, counts_.data, background_.data, model.data))
        fit == Solve(method, counts_.data, background_.data, model.data,
                     IF flux_ = NoArray THEN None ELSE seed, o)
        c_1 == f_cash(fit.amplitude, counts_.data, background_.data, model.data)
    IN  IF model.raised # "" THEN Raise(model.raised)
        ELSE IF threshold # None /\ flux_ = NoArray THEN Raise("TypeError")
        ELSE IF threshold # None /\ FLt(gap, threshold)
        THEN Tuple(gap, TimesFluxFactor(seed), 0)
        ELSE IF method \notin Methods THEN Raise("ValueError")
        ELSE Dict(FMul(FSub(c_0, c_1), sign(fit.amplitude)),
                  TimesFluxFactor(fit.amplitude),
                  fit.niter,
                  _compute_amplitude_err(fit.amplitude, counts_.data, background_.data,
                                         model.data),
                  TimesFluxFactor(_compute_amplitude_err_profile(
                      fit.amplitude, counts_.data, background_.data, model.data, c_1,
                      o.prof)))

(***************************************************************************)
(* TSImageEstimator: the state.                                            *)
(***************************************************************************)
VARIABLES
    py3,        \* the interpreter: TRUE when the builtin map is a one-shot iterator
    heap,       \* the arrays, by reference
    images,     \* the caller's image collection: name -> reference ("" = absent)
    est,        \* the estimator's parameters, set by __init__
    pc,         \* "new", "idle", "map", "returned", "raised", "init_raised"
    which,      \* run's argument
    work,       \* run's counts, exposure, background: references
    c_0_image,  \* run's null statistic image
    mask,       \* run's mask
    positions,  \* run's position list
    flux,       \* run's start value image, NoArray for None
    results,    \* what the workers have handed back, by index into positions
    err,        \* the exception a call ended with
    warned,     \* whether _get_mask logged its warning
    oracle,     \* the outcomes of the external numerics, by slice
    prev,       \* the previous run on the same input, for comparison
    out,        \* the image collection run returned
    call,       \* a direct solver call: its method and arguments
    outcome,    \* what the external numerics yielded in that call
    fit,        \* what the solver returned, with the ts and flux derived from it
    mcol,       \* compute_ts_image_multiscale: the caller's collection (its names, in order)
    mheap,      \* ... the image arrays, by reference
    margs,      \* ... its arguments
    ms,         \* ... its local state
    handed,     \* ... what it handed to the estimator, per scale
    mxin,       \* compute_maximum_ts_image: the list of scale results it is given
    mx,         \* ... its local state
    mxout,      \* ... the collection it returned
    lheap,      \* Models: the Python lists, by reference
    mods,       \* ... the reference of the collection's _models ("" before construction)
    mlast,      \* ... the last operation: its name, its exception, the models of the collection it returned
    obs_table,  \* DataStore: the observation ids the index tables hold
    obs_id,     \* ... obs_list: the ids it is asked for
    skip_missing,\* ... its skip_missing argument
    spc,        \* ... where the call is: "", "loop", "returned" or the exception it raised
    sidx,       \* ... how many ids the loop has taken
    obslist,    \* ... the ObservationList under construction
    slog,       \* ... the ids log.warning was called for
    sret,       \* ... the list it returned
    pshape,     \* _get_positions called alone: the shape of the mask
    pmask,      \* ... the mask
    pkernel,    \* ... the shape of the kernel
    ppos,       \* ... the positions returned
    ppc,        \* ... "" before the call, "returned" after it, "sliced" after the extraction
    pslices     \* ... the slice _extract_array takes around each position

runVars == <<py3, heap, images, est, pc, which, work, c_0_image, mask, positions, flux,
             results, err, warned, oracle, prev, out>>
solverVars == <<call, outcome, fit>>
multiVars == <<mcol, mheap, margs, ms, handed>>
maxVars == <<mxin, mx, mxout>>
modelsVars == <<lheap, mods, mlast>>
storeVars == <<obs_table, obs_id, skip_missing, spc, sidx, obslist, slog, sret>>
posVars == <<pshape, pmask, pkernel, ppos, ppc, pslices>>
vars == <<runVars, solverVars, multiVars, maxVars, modelsVars, storeVars, posVars>>

\* What the steps of one part of the module leave alone: the other parts.
notRun == <<solverVars, multiVars, maxVars, modelsVars, storeVars, posVars>>
notSolver == <<runVars, multiVars, maxVars, modelsVars, storeVars, posVars>>
notMulti == <<runVars, solverVars, maxVars, modelsVars, storeVars, posVars>>
notMax == <<runVars, solverVars, multiVars, modelsVars, storeVars, posVars>>
notModels == <<runVars, solverVars, multiVars, maxVars, storeVars, posVars>>
notStore == <<runVars, solverVars, multiVars, maxVars, modelsVars, posVars>>
notPos == <<runVars, solverVars, multiVars, maxVars, modelsVars, storeVars>>

Required == {"counts", "background", "exposure"}
CallerRefs == {"in_counts", "in_background", "in_exposure"}
WorkRefs == {"w_counts", "w_background", "w_exposure"}
Shape == <<1, ImgW>>
KernelShapes == {<<1, 1>>, <<3, 3>>}
ImageNames == <<"ts", "flux", "flux_err", "flux_err_profile", "niter">>
AllNames == {"ts", "sqrt_ts", "flux", "flux_err", "flux_err_profile", "niter"}

\* Pixel values of the input images: an exposed pixel with and without counts,
\* an exposed pixel without background (the anomaly of _get_mask) and an
\* unexposed pixel.
PixelValues ==
    {[counts |-> 2, background |-> 1, exposure |-> 1],
     [counts |-> 0, background |-> 1, exposure |-> 1],
     [counts |-> 2, background |-> 0, exposure |-> 1],
     [counts |-> 0, background |-> 0, exposure |-> 0]}

\* An input image: the value base everywhere but at pixel hp, where it is hot.
Image(shape, base, hot, hp) ==
    [shape |-> shape, data |-> [p \in Pixels(shape) |-> IF p = hp THEN hot ELSE base]]

\* The module's global names (lines 4-31 and its def/class statements).
ModuleGlobals ==
    {"logging", "time", "warnings", "OrderedDict", "product", "partial", "Pool",
     "cpu_count", "np", "Model2DKernel", "Gaussian2DKernel", "CustomKernel", "Kernel2D",
     "_round_up_to_odd_integer", "fits", "shape_2N", "symmetric_crop_pad_width",
     "multi_gauss_psf_kernel", "measure_containment_radius", "SkyImageList", "SkyImage",
     "Shell2D", "_cash_cython", "_amplitude_bounds_cython", "_cash_sum_cython",
     "_f_cash_root_cython", "_x_best_leastsq", "log", "FLUX_FACTOR", "MAX_NITER",
     "CONTAINMENT", "_extract_array", "f_cash", "TSImageEstimator",
     "compute_ts_image_multiscale", "compute_maximum_ts_image", "_ts_value",
     "_leastsq_iter_amplitude", "_compute_amplitude_err",
     "_compute_amplitude_err_profile", "_root_amplitude", "_root_amplitude_brentq",
     "_flux_correlation_radius"}

\* _estimate_flux(self, images): the names its body reads, and those it binds.
\* A name read that is neither local nor global raises NameError.  Otherwise the
\* start values are (counts - background) / exposure / FLUX_FACTOR with the
\* non-finite ones set to 0, convolved with the kernel (mode 'same') and
\* divided by the sum of the squared kernel.
_estimate_flux(counts, background, exposure, kernel) ==
    LET reads == {"counts", "background", "exposure", "FLUX_FACTOR", "np", "flux",
                  "fftconvolve", "kernel"}
        locals == {"self", "images", "fftconvolve", "flux"}
        raw == [p \in DOMAIN counts.data |->
                  IF exposure.data[p] = 0 THEN 0
                  ELSE ((counts.data[p] - background.data[p]) * FLUX_FACTOR_INV)
                          \div exposure.data[p]]
        cy == kernel.shape[1] \div 2
        cx == kernel.shape[2] \div 2
        at(p, q) == <<p[1] + cy - q[1], p[2] + cx - q[2]>>
        conv(p) == SumInt([q \in DOMAIN kernel.array |->
                             IF at(p, q) \in DOMAIN raw
                             THEN raw[at(p, q)] * kernel.array[q] ELSE 0],
                          DOMAIN kernel.array)
        norm == SumInt([q \in DOMAIN kernel.array |-> kernel.array[q] * kernel.array[q]],
                       DOMAIN kernel.array)
    IN  IF reads \ (locals \cup ModuleGlobals) # {}
        THEN [raised |-> "NameError", flux |-> NoArray]
        ELSE [raised |-> "",
              flux |-> [shape |-> counts.shape,
                        data |-> [p \in DOMAIN raw |-> Num(conv(p) \div norm)]]]

\* _get_mask without the correction: the warning is logged and the exposure
\* left as it is.
_get_mask_nofix(exposure, background) ==
    [warning |-> \E p \in DOMAIN exposure : background[p] = 0 /\ exposure[p] > 0,
     exposure |-> exposure,
     mask |-> [p \in DOMAIN exposure |-> exposure[p] > 0]]

\* _get_mask: the exposure is zeroed in place where background == 0 and
\* exposure > 0, with a warning; the mask is exposure > 0 after that.
_get_mask(exposure, background) ==
    LET mask_ == [p \in DOMAIN exposure |-> background[p] = 0 /\ exposure[p] > 0]
        any == \E p \in DOMAIN mask_ : mask_[p]
        exposure2 == [p \in DOMAIN exposure |-> IF any /\ mask_[p] THEN 0 ELSE exposure[p]]
    IN  [warning |-> any, exposure |-> exposure2,
         mask |-> [p \in DOMAIN exposure2 |-> exposure2[p] > 0]]

\* range(lo, hi) as a sequence.
Range(lo, hi) == [k \in 1..Max(hi - lo, 0) |-> lo + k - 1]

\* _get_positions with the two axes of the kernel exchanged.
_get_positions_swapped(mask_, mshape, kernel_shape) ==
    LET x_min == kernel_shape[1] \div 2
        x_max == mshape[2] - kernel_shape[1] \div 2
        y_min == kernel_shape[2] \div 2
        y_max == mshape[1] - kernel_shape[2] \div 2
        ys == Range(y_min, y_max)
        xs == Range(x_min, x_max)
        product == [k \in 1..(Len(ys) * Len(xs)) |->
                      <<ys[((k - 1) \div Len(xs)) + 1], xs[((k - 1) % Len(xs)) + 1]>>]
    IN  SelectSeq(product, LAMBDA p : mask_[p])

\* _get_positions: product(range(y_min, y_max), range(x_min, x_max)), kept
\* where the mask is set.
_get_positions(mask_, mshape, kernel_shape) ==
    LET x_min == kernel_shape[2] \div 2
        x_max == mshape[2] - kernel_shape[2] \div 2
        y_min == kernel_shape[1] \div 2
        y_max == mshape[1] - kernel_shape[1] \div 2
        ys == Range(y_min, y_max)
        xs == Range(x_min, x_max)
        product == [k \in 1..(Len(ys) * Len(xs)) |->
                      <<ys[((k - 1) \div Len(xs)) + 1], xs[((k - 1) % Len(xs)) + 1]>>]
    IN  SelectSeq(product, LAMBDA p : mask_[p])

\* _parse_image_data handing back the caller's arrays themselves (no copy).
_parse_image_data_alias(imgs, h) ==
    [raised |-> IF h[imgs["counts"]].shape = h[imgs["background"]].shape
                   /\ h[imgs["counts"]].shape = h[imgs["exposure"]].shape
                THEN "" ELSE "AssertionError",
     counts |-> imgs["counts"], exposure |-> imgs["exposure"],
     background |-> imgs["background"], heap |-> h]

\* _parse_image_data without its two assert statements.
_parse_image_data_noassert(imgs, h) ==
    [raised |-> "", counts |-> "w_counts", exposure |-> "w_exposure",
     background |-> "w_background",
     heap |-> [r \in DOMAIN h |->
                 IF r = "w_counts" THEN h[imgs["counts"]]
                 ELSE IF r = "w_background" THEN h[imgs["background"]]
                 ELSE IF r = "w_exposure" THEN h[imgs["exposure"]]
                 ELSE h[r]]]

\* _parse_image_data: astype(float) gives run arrays of its own; the shapes are
\* asserted equal.
_parse_image_data(imgs, h) ==
    LET h2 == [r \in DOMAIN h |->
                 IF r = "w_counts" THEN h[imgs["counts"]]
                 ELSE IF r = "w_background" THEN h[imgs["background"]]
                 ELSE IF r = "w_exposure" THEN h[imgs["exposure"]]
                 ELSE h[r]]
    IN  [raised |-> IF h[imgs["counts"]].shape = h[imgs["background"]].shape
                       /\ h[imgs["counts"]].shape = h[imgs["exposure"]].shape
                    THEN "" ELSE "AssertionError",
         counts |-> "w_counts", exposure |-> "w_exposure", background |-> "w_background",
         heap |-> h2]

(***************************************************************************)
(* TSImageEstimator: the operations.                                       *)
(***************************************************************************)
NoEstimator ==
    [kernel |-> Kernel(<<1, 1>>), method |-> "", parallel |-> FALSE, threshold |-> None]
NoWhich == [all |-> FALSE, names |-> {}]
NoWork == [counts |-> "", exposure |-> "", background |-> ""]
NoPrev == [set |-> FALSE, parallel |-> FALSE, which |-> NoWhich, pc |-> "", err |-> "",
           out |-> <<>>]

\* An exposed pixel with fewer counts than background, and an unexposed one.
Deficit == [counts |-> 1, background |-> 2, exposure |-> 1]
Unexposed == [counts |-> 0, background |-> 0, exposure |-> 0]

\* The inputs: well-formed image collections, among them images with a count
\* deficit at every exposed pixel, one with the exposure image absent and one
\* whose exposure image has another shape.
Inputs ==
    [base : PixelValues, hot : PixelValues, hp : Pixels(Shape), defect : {""}]
    \cup [base : {Deficit}, hot : {Deficit, Unexposed}, hp : {<<0, 0>>}, defect : {""}]
    \cup [base : {[counts |-> 2, background |-> 1, exposure |-> 1]},
          hot : {[counts |-> 2, background |-> 1, exposure |-> 1]},
          hp : {<<0, 0>>}, defect : {"missing", "shape"}]

InputHeap(in) ==
    [r \in CallerRefs \cup WorkRefs |->
        IF r = "in_counts" THEN Image(Shape, in.base.counts, in.hot.counts, in.hp)
        ELSE IF r = "in_background"
        THEN Image(Shape, in.base.background, in.hot.background, in.hp)
        ELSE IF r = "in_exposure"
        THEN Image(IF in.defect = "shape" THEN <<1, ImgW - 1>> ELSE Shape,
                   in.base.exposure, in.hot.exposure, in.hp)
        ELSE NoArray]

InputImages(in) ==
    [counts |-> "in_counts", background |-> "in_background",
     exposure |-> IF in.defect = "missing" THEN "" ELSE "in_exposure"]

\* No direct solver call and no multiscale call is in progress.
NoCall == [method |-> "", counts |-> <<>>, background |-> <<>>, model |-> <<>>, x0 |-> None]
NoOutcome == [kind |-> "", x |-> 0, iters |-> 0, prof |-> ""]
NoFit == [amplitude |-> None, niter |-> 0, flux |-> None, ts |-> None]
NoArgs == [scales |-> <<>>, downsample |-> [auto |-> TRUE, factor |-> 0],
           residual |-> FALSE, morphology |-> "", width |-> None]
NoDriver == [pc |-> "off", i |-> 0, factor |-> 0, downsampled |-> FALSE,
             pad_width |-> <<<<0, 0>>, <<0, 0>>>>, images2 |-> <<>>, err |-> ""]

NoMax == [pc |-> "off", idx_scale |-> 0, ts_max |-> <<>>, scale_max |-> <<>>,
          niter_max |-> <<>>, amplitude_max |-> <<>>, err |-> ""]

SolverIdle == call = NoCall /\ outcome = NoOutcome /\ fit = NoFit
MaxIdle == mxin = <<>> /\ mx = NoMax /\ mxout = <<>>
NoOp == [op |-> "", raised |-> "", result |-> <<>>]
ModelsIdle == lheap = <<>> /\ mods = "" /\ mlast = NoOp
StoreIdle == obs_table = {} /\ obs_id = <<>> /\ skip_missing = FALSE /\ spc = "" /\ sidx = 0 /\ obslist = <<>> /\ slog = <<>> /\ sret = <<>>
PosIdle == pshape = <<>> /\ pmask = <<>> /\ pkernel = <<>> /\ ppos = <<>> /\ ppc = "" /\ pslices = <<>>
MultiIdle ==
    mcol = <<>> /\ mheap = <<>> /\ margs = NoArgs /\ ms = NoDriver /\ handed = <<>>

Init ==
    /\ SolverIdle
    /\ MultiIdle
    /\ MaxIdle
    /\ ModelsIdle
    /\ StoreIdle
    /\ PosIdle
    /\ py3 \in BOOLEAN
    /\ \E in \in Inputs : heap = InputHeap(in) /\ images = InputImages(in)
    /\ est = NoEstimator
    /\ pc = "new"
    /\ which = NoWhich
    /\ work = NoWork
    /\ c_0_image = NoArray
    /\ mask = NoArray
    /\ positions = <<>>
    /\ flux = NoArray
    /\ results = <<>>
    /\ err = ""
    /\ warned = FALSE
    /\ oracle = <<>>
    /\ prev = NoPrev
    /\ out = <<>>

Thresholds == {None, Num(100000)}

\* __init__ without the test of the method: every string is taken.
__init___any_method(kernel, method, parallel, threshold) ==
    /\ pc = "new"
    /\ pc' = "idle"
    /\ err' = err
    /\ est' = [kernel |-> kernel, method |-> method, parallel |-> parallel,
               threshold |-> threshold]
    /\ UNCHANGED <<py3, heap, images, which, work, c_0_image, mask, positions, flux,
                   results, warned, oracle, prev, out>>
    /\ UNCHANGED notRun

\* TSImageEstimator.__init__: self.kernel is set before the method is tested,
\* self.parameters after it.
__init__(kernel, method, parallel, threshold) ==
    /\ pc = "new"
    /\ IF method \notin {"root brentq", "root newton", "leastsq iter"}
       THEN /\ pc' = "init_raised"
            /\ err' = "ValueError"
            /\ est' = [est EXCEPT !.kernel = kernel]
       ELSE /\ pc' = "idle"
            /\ err' = err
            /\ est' = [kernel |-> kernel, method |-> method, parallel |-> parallel,
                       threshold |-> threshold]
    /\ UNCHANGED <<py3, heap, images, which, work, c_0_image, mask, positions, flux,
                   results, warned, oracle, prev, out>>
    /\ UNCHANGED notRun

\* The values `which` is called with.
Whichs ==
    {[all |-> TRUE, names |-> {}],
     [all |-> FALSE, names |-> {"ts", "sqrt_ts"}],
     [all |-> FALSE, names |-> {"ts", "flux", "flux_err", "flux_err_profile", "niter"}]}

\* SkyImageList.check_required
check_required(imgs, names) ==
    IF \E n \in names : imgs[n] = "" THEN "MissingImage" ELSE ""


\* run, lines 201-231: the result images, the run arrays, the null statistic,
\* the mask, the positions and the start values.
run_begin(w) ==
    /\ pc = "idle"
    /\ prev.set => w = prev.which
    /\ which' = w
    /\ IF check_required(images, Required) # ""
       THEN /\ pc' = "raised"
            /\ err' = check_required(images, Required)
            /\ UNCHANGED <<heap, work, c_0_image, mask, positions, flux, results, warned>>
       ELSE LET parsed == _parse_image_data(images, heap)
                counts == parsed.heap[parsed.counts]
                exposure == parsed.heap[parsed.exposure]
                background == parsed.heap[parsed.background]
                got == _get_mask(exposure.data, background.data)
                pos == _get_positions(got.mask, exposure.shape, est.kernel.shape)
                start == IF est.method = "root newton"
                         THEN _estimate_flux(counts, background, exposure, est.kernel)
                         ELSE [raised |-> "", flux |-> NoArray]
            IN  /\ work' = [counts |-> parsed.counts, exposure |-> parsed.exposure,
                            background |-> parsed.background]
                /\ IF parsed.raised # ""
                   THEN /\ pc' = "raised"
                        /\ err' = parsed.raised
                        /\ heap' = parsed.heap
                        /\ UNCHANGED <<c_0_image, mask, positions, flux, results, warned>>
                   ELSE /\ c_0_image' = [shape |-> counts.shape,
                                         data |-> _cash_cython(counts.data, background.data)]
                        /\ heap' = [parsed.heap EXCEPT ![parsed.exposure] =
                                       [shape |-> exposure.shape, data |-> got.exposure]]
                        /\ warned' = got.warning
                        /\ mask' = [shape |-> exposure.shape, data |-> got.mask]
                        /\ positions' = pos
                        /\ flux' = start.flux
                        /\ results' = [k \in 1..Len(pos) |-> Pending]
                        /\ pc' = IF start.raised # "" THEN "raised" ELSE "map"
                        /\ err' = start.raised
    /\ UNCHANGED <<py3, images, est, oracle, prev, out>>
    /\ UNCHANGED notRun

\* The arguments a worker's solver sees at a position.
SliceKey(position) ==
    LET counts_ == _extract_array(heap[work.counts].data, heap[work.counts].shape,
                                  est.kernel.shape, position)
        background_ == _extract_array(heap[work.background].data,
                                      heap[work.background].shape, est.kernel.shape,
                                      position)
        exposure_ == _extract_array(heap[work.exposure].data, heap[work.exposure].shape,
                                    est.kernel.shape, position)
        model == Multiply(exposure_, [shape |-> est.kernel.shape,
                                      data |-> est.kernel.array])
    IN  <<counts_.data, background_.data, model.data>>

\* run, lines 233-240: one call wrap(positions[k]) of the map.  The pool's
\* workers take the positions in any order; the serial map takes them in turn.
\* An exception in a call ends the run.
map_call(k) ==
    /\ pc = "map"
    /\ k \in DOMAIN results
    /\ results[k] = Pending
    /\ est.parallel \/ \A j \in 1..(k - 1) : results[j] # Pending
    /\ LET key == SliceKey(positions[k])
           value(o) == _ts_value(positions[k], heap[work.counts], heap[work.exposure],
                                 heap[work.background], c_0_image, est.kernel, flux,
                                 est.method, est.threshold, o)
           early == value([kind |-> "none", x |-> 0, iters |-> 0, prof |-> "fail"])
       IN  IF early.kind # "dict"
           THEN /\ oracle' = oracle
                /\ IF early.kind = "raise"
                   THEN pc' = "raised" /\ err' = early.exc /\ results' = results
                   ELSE pc' = pc /\ err' = err
                        /\ results' = [results EXCEPT ![k] = early]
           ELSE \E o \in (IF key \in DOMAIN oracle THEN {oracle[key]}
                          ELSE Outcomes(est.method, key[1])) :
                    /\ oracle' = [q \in DOMAIN oracle \cup {key} |->
                                     IF q = key THEN o ELSE oracle[q]]
                    /\ results' = [results EXCEPT ![k] = value(o)]
                    /\ pc' = pc
                    /\ err' = err
    /\ UNCHANGED <<py3, heap, images, est, which, work, c_0_image, mask, positions, flux,
                   warned, prev, out>>
    /\ UNCHANGED notRun

\* np.sqrt, on hundredths giving tenths.
sqrt(x) ==
    IF x.k = "nan" THEN NaN
    ELSE IF x.k = "inf" THEN (IF x.v > 0 THEN x ELSE NaN)
    ELSE IF x.v < 0 THEN NaN
    ELSE Num(ISqrt(x.v))

\* np.sqrt(ts) alone: NaN for a negative ts.
sqrt_ts_plain(ts) == sqrt(ts)

\* np.where(ts > 0, np.sqrt(ts), -np.sqrt(-ts))
sqrt_ts(ts) == IF FLt(Num(0), ts) THEN sqrt(ts) ELSE FNeg(sqrt(FNeg(ts)))

\* The exception, if any, of the assignment of ImageNames[i] at lines 244-245:
\* the list comprehension first (a tuple has no item 'ts'; a one-shot map is
\* empty after the first name), then result[name], then the store.
StoreError(i, names, lazy) ==
    IF (~lazy \/ i = 1) /\ \E k \in DOMAIN results : results[k].kind = "tuple"
    THEN "TypeError"
    ELSE IF ImageNames[i] \notin names THEN "KeyError"
    ELSE IF lazy /\ i > 1 THEN "ValueError"
    ELSE ""

\* The store over an image of zeros in place of the NaN image.
Stored_zeros(name, shape) ==
    [shape |-> shape,
     data |-> [p \in Pixels(shape) |->
                 IF \E k \in DOMAIN positions : positions[k] = p
                 THEN LET k == CHOOSE k \in DOMAIN positions : positions[k] = p
                      IN  IF name = "niter" THEN Num(results[k].niter) ELSE results[k][name]
                 ELSE Num(0)]]

\* The store with the list of results taken from its end: the k-th position
\* gets the result of the k-th position from the end.
Stored_reversed(name, shape) ==
    [shape |-> shape,
     data |-> [p \in Pixels(shape) |->
                 IF \E k \in DOMAIN positions : positions[k] = p
                 THEN LET k == CHOOSE k \in DOMAIN positions : positions[k] = p
                          r == results[Len(results) + 1 - k]
                      IN  IF name = "niter" THEN Num(r.niter) ELSE r[name]
                 ELSE NaN]]

\* result[name].data[j, i] = [...] over a NaN image of the counts' shape.
Stored(name, shape) ==
    [shape |-> shape,
     data |-> [p \in Pixels(shape) |->
                 IF \E k \in DOMAIN positions : positions[k] = p
                 THEN LET k == CHOOSE k \in DOMAIN positions : positions[k] = p
                      IN  IF name = "niter" THEN Num(results[k].niter) ELSE results[k][name]
                 ELSE NaN]]

\* run, lines 242-255: the results are stored at their positions, sqrt_ts is
\* derived and the collection returned.
run_collect ==
    /\ pc = "map"
    /\ \A k \in DOMAIN results : results[k] # Pending
    /\ LET names == IF which.all THEN AllNames ELSE which.names
           lazy == py3 /\ ~est.parallel
           shape == heap[work.counts].shape
           failing == {i \in DOMAIN ImageNames : StoreError(i, names, lazy) # ""}
           first == CHOOSE i \in failing : \A j \in failing : i <= j
           ts == Stored("ts", shape)
       IN  IF positions = <<>>
           THEN pc' = "raised" /\ err' = "ValueError" /\ out' = out
           ELSE IF failing # {}
           THEN pc' = "raised" /\ err' = StoreError(first, names, lazy) /\ out' = out
           ELSE /\ pc' = "returned"
                /\ err' = err
                /\ out' = [n \in names |->
                             IF n = "sqrt_ts"
                             THEN [shape |-> shape,
                                   data |-> [p \in Pixels(shape) |-> sqrt_ts(ts.data[p])]]
                             ELSE Stored(n, shape)]
    /\ UNCHANGED <<py3, heap, images, est, which, work, c_0_image, mask, positions, flux,
                   results, warned, oracle, prev>>
    /\ UNCHANGED notRun

\* The caller runs the estimator once more on the same collection with the
\* same arguments and the other value of `parallel`.
run_again ==
    /\ pc \in {"returned", "raised"}
    /\ ~prev.set
    /\ prev' = [set |-> TRUE, parallel |-> est.parallel, which |-> which, pc |-> pc,
                err |-> err, out |-> out]
    /\ est' = [est EXCEPT !.parallel = ~@]
    /\ pc' = "idle"
    /\ heap' = [r \in DOMAIN heap |-> IF r \in WorkRefs THEN NoArray ELSE heap[r]]
    /\ which' = NoWhich
    /\ work' = NoWork
    /\ c_0_image' = NoArray
    /\ mask' = NoArray
    /\ positions' = <<>>
    /\ flux' = NoArray
    /\ results' = <<>>
    /\ err' = ""
    /\ warned' = FALSE
    /\ out' = <<>>
    /\ UNCHANGED <<py3, images, oracle>>
    /\ UNCHANGED notRun

Next ==
    \/ \E kshape \in KernelShapes, method \in Methods \cup {"root"},
          parallel \in BOOLEAN, threshold \in Thresholds :
          __init__(Kernel(kshape), method, parallel, threshold)
    \/ \E w \in Whichs : run_begin(w)
    \/ \E k \in 1..ImgW : map_call(k)
    \/ run_collect
    \/ run_again

Spec == Init /\ [][Next]_vars


(***************************************************************************)
(* The amplitude solvers, called on a slice.                               *)
(***************************************************************************)
\* No estimator run is in progress.
RunIdle ==
    /\ py3 = FALSE /\ heap = <<>> /\ images = <<>> /\ est = NoEstimator /\ pc = "off"
    /\ which = NoWhich /\ work = NoWork /\ c_0_image = NoArray /\ mask = NoArray
    /\ positions = <<>> /\ flux = NoArray /\ results = <<>> /\ err = "" /\ warned = FALSE
    /\ oracle = <<>> /\ prev = NoPrev /\ out = <<>>

\* The pixels of a slice: with and without counts; with a background of 1 or 2
\* and a model value (exposure times kernel) of 1 or 2, or unexposed.
SlicePixels ==
    {[counts |-> c, background |-> bm[1], model |-> bm[2]] :
        c \in {0, 2}, bm \in {<<1, 1>>, <<1, 2>>, <<2, 1>>, <<0, 0>>}}

\* The slices of the shapes <<1, 1>> .. <<1, ImgW>>.
Slices ==
    UNION {[Pixels(<<1, n>>) -> SlicePixels] : n \in 1..ImgW}

SolverCalls ==
    {[method |-> m, counts |-> [p \in DOMAIN sl |-> sl[p].counts],
      background |-> [p \in DOMAIN sl |-> sl[p].background],
      model |-> [p \in DOMAIN sl |-> sl[p].model],
      x0 |-> IF m = "root newton" THEN Num(0) ELSE None] :
        m \in Methods, sl \in Slices}

InitSolver ==
    /\ RunIdle
    /\ MultiIdle
    /\ MaxIdle
    /\ ModelsIdle
    /\ StoreIdle
    /\ PosIdle
    /\ call \in SolverCalls
    /\ outcome = NoOutcome
    /\ fit = NoFit

\* One call of the solver the method names (lines 455-462), with the ts and the
\* flux _ts_value derives from its amplitude (lines 464-469).
solve ==
    /\ call # NoCall
    /\ fit = NoFit
    /\ \E o \in Outcomes(call.method, call.counts) :
          LET r == Solve(call.method, call.counts, call.background, call.model,
                         call.x0, o)
              c_0 == SumFloat(_cash_cython(call.counts, call.background),
                              DOMAIN call.counts)
              c_1 == f_cash(r.amplitude, call.counts, call.background, call.model)
          IN  /\ outcome' = o
              /\ fit' = [amplitude |-> r.amplitude, niter |-> r.niter,
                         flux |-> TimesFluxFactor(r.amplitude),
                         ts |-> FMul(FSub(c_0, c_1), sign(r.amplitude))]
    /\ UNCHANGED <<call, notSolver>>

NextSolver == solve

SpecSolver == InitSolver /\ [][NextSolver]_vars

(***************************************************************************)
(* compute_ts_image_multiscale.                                            *)
(***************************************************************************)
\* The longest scales list.
MaxScales == 2

\* Image values are held in units of 1 / ValueUnit, so that the block means
\* of the factors 2, 4 and 8 are exact.
ValueUnit == 64

\* The scales, in units of BINSZ (line 292).
ScaleValues == {0, 5, 10, 39, 40}
ScaleLists == UNION {[1..n -> ScaleValues] : n \in 0..MaxScales}
Morphologies == {"Gaussian2D", "Shell2D", "Disk2D"}

\* The collections the driver is called with: their names, in order.
Collections ==
    {<<"counts", "background", "exposure">>,
     <<"counts", "exposure", "background">>,
     <<"counts", "background", "exposure", "model">>,
     <<"counts", "exposure", "background", "model">>}

ElemsOf(seq) == {seq[k] : k \in DOMAIN seq}
IndexOf(seq, x) == CHOOSE k \in DOMAIN seq : seq[k] = x

\* The caller's image of a name: a value per name, one more at pixel <<0, 0>>.
MInput(name) ==
    LET base == CASE name = "counts" -> 2 [] name = "background" -> 1
                  [] name = "exposure" -> 3 [] OTHER -> 1
    IN  [shape |-> Shape,
         data |-> [p \in Pixels(Shape) |->
                     ValueUnit * (IF p = <<0, 0>> THEN base + 1 ELSE base)]]

\* References: the caller's image of a name and the image a scale made of it.
MRefs == [own : {"in", "s"}, name : {"counts", "background", "exposure", "model"}]

InitMulti ==
    /\ RunIdle
    /\ SolverIdle
    /\ MaxIdle
    /\ ModelsIdle
    /\ StoreIdle
    /\ PosIdle
    /\ mcol \in Collections
    /\ mheap = [r \in MRefs |->
                  IF r.own = "in" /\ r.name \in ElemsOf(mcol) THEN MInput(r.name)
                  ELSE NoArray]
    /\ margs = NoArgs
    /\ ms = [NoDriver EXCEPT !.pc = "new"]
    /\ handed = <<>>

\* compute_ts_image_multiscale, lines 292-295 (and 368 for an empty list).
compute_ts_image_multiscale(scales, downsample, residual, morphology, width) ==
    /\ ms.pc = "new"
    /\ margs' = [scales |-> scales, downsample |-> downsample, residual |-> residual,
                 morphology |-> morphology, width |-> width]
    /\ ms' = [ms EXCEPT !.pc = IF scales = <<>> THEN "returned" ELSE "loop", !.i = 1]
    /\ UNCHANGED <<mcol, mheap, handed, notMulti>>

\* The choice with the factor 8 from 20 * BINSZ on.
AutoFactor_coarse(scale) ==
    IF scale < 5 THEN 1 ELSE IF scale < 10 THEN 2 ELSE IF scale < 20 THEN 4 ELSE 8

\* np.select([scale < 5 * BINSZ, scale < 10 * BINSZ, scale < 20 * BINSZ,
\*            scale < 40 * BINSZ], [1, 2, 4, 4], 8), line 303
AutoFactor(scale) ==
    IF scale < 5 THEN 1 ELSE IF scale < 10 THEN 2 ELSE IF scale < 20 THEN 4
    ELSE IF scale < 40 THEN 4 ELSE 8

\* shape_2N: each axis raised to the next multiple of 2 ** 3.
shape_2N(shape) ==
    <<shape[1] + (8 - (shape[1] % 8)), shape[2] + (8 - (shape[2] % 8))>>

\* symmetric_crop_pad_width: ((ytop, ybottom), (xleft, xright)).
symmetric_crop_pad_width(shape, new_shape) ==
    LET ydiff == new_shape[1] - shape[1]
        xdiff == new_shape[2] - shape[2]
    IN  <<<<ydiff \div 2, ydiff - ydiff \div 2>>, <<xdiff \div 2, xdiff - xdiff \div 2>>>>

\* SkyImage.pad: zeros around the image.
pad(image, pad_width) ==
    LET shape == <<image.shape[1] + pad_width[1][1] + pad_width[1][2],
                   image.shape[2] + pad_width[2][1] + pad_width[2][2]>>
        src(p) == <<p[1] - pad_width[1][1], p[2] - pad_width[2][1]>>
    IN  [shape |-> shape,
         data |-> [p \in Pixels(shape) |->
                     IF src(p) \in DOMAIN image.data THEN image.data[src(p)] ELSE 0]]

\* SkyImage.downsample: func over the factor x factor blocks.
downsample(image, factor, func) ==
    LET shape == <<image.shape[1] \div factor, image.shape[2] \div factor>>
        block(p) == {q \in DOMAIN image.data :
                        q[1] \div factor = p[1] /\ q[2] \div factor = p[2]}
    IN  [shape |-> shape,
         data |-> [p \in Pixels(shape) |->
                     IF func = "mean"
                     THEN SumInt(image.data, block(p)) \div (factor * factor)
                     ELSE SumInt(image.data, block(p))]]

\* funcs, line 318
funcs == <<"nansum", "mean", "nansum", "nansum", "nansum">>

\* The image a scale makes of images[name] (lines 321-327), given the factor.
Prepared(image, k, factor, downsampled) ==
    IF downsampled
    THEN downsample(pad(image, symmetric_crop_pad_width(image.shape, shape_2N(image.shape))),
                    factor, funcs[k])
    ELSE image

\* a.data + b.data
AddData(a, b) == [shape |-> a.shape, data |-> [p \in DOMAIN a.data |-> a.data[p] + b.data[p]]]

\* One pass of the loop up to the call of the estimator, lines 298-350: the
\* factor, images2, the kernel and the residual background.
scale_prepare ==
    /\ ms.pc = "loop"
    /\ LET scale == margs.scales[ms.i]
           factor0 == IF margs.downsample.auto THEN AutoFactor(scale)
                      ELSE margs.downsample.factor
           downsampled == factor0 # 1
           factor == IF downsampled /\ margs.morphology = "Shell2D"
                     THEN factor0 \div 2 ELSE factor0
           zipped == 1..Min(Len(mcol), Len(funcs))
           names == {mcol[k] : k \in zipped}
           images2 == [n \in names |->
                         [own |-> IF downsampled THEN "s" ELSE "in", name |-> n]]
           heap1 == [r \in MRefs |->
                       IF r.own = "in" THEN mheap[r]
                       ELSE IF downsampled /\ r.name \in names
                       THEN Prepared(mheap[[own |-> "in", name |-> r.name]],
                                     IndexOf(mcol, r.name), factor, TRUE)
                       ELSE NoArray]
           kernel_err == IF scale > 0 /\ margs.morphology = "Shell2D" /\ margs.width = None
                         THEN "TypeError"
                         ELSE IF scale > 0 /\ margs.morphology \notin {"Gaussian2D", "Shell2D"}
                         THEN "ValueError" ELSE ""
           local == [ms EXCEPT !.factor = factor, !.downsampled = downsampled,
                               !.pad_width = IF downsampled
                                             THEN symmetric_crop_pad_width(Shape, shape_2N(Shape))
                                             ELSE ms.pad_width,
                               !.images2 = images2]
       IN  IF kernel_err # ""
           THEN ms' = [local EXCEPT !.pc = "raised", !.err = kernel_err] /\ mheap' = heap1
           ELSE IF margs.residual /\ "model" \notin names
           THEN ms' = [local EXCEPT !.pc = "raised", !.err = "KeyError"] /\ mheap' = heap1
           ELSE /\ ms' = [local EXCEPT !.pc = "call"]
                /\ mheap' = IF margs.residual
                            THEN [heap1 EXCEPT ![images2["background"]] =
                                     AddData(heap1[images2["background"]],
                                             heap1[images2["model"]])]
                            ELSE heap1
    /\ UNCHANGED <<mcol, margs, handed, notMulti>>

\* The call of the estimator and the rest of the pass, lines 353-368.  The
\* name compute_ts_image is looked up among the module's globals.
scale_estimate ==
    /\ ms.pc = "call"
    /\ IF "compute_ts_image" \notin ModuleGlobals
       THEN ms' = [ms EXCEPT !.pc = "raised", !.err = "NameError"] /\ handed' = handed
       ELSE /\ handed' = Append(handed,
                            [counts |-> mheap[ms.images2["counts"]],
                             background |-> mheap[ms.images2["background"]],
                             exposure |-> mheap[ms.images2["exposure"]]])
            /\ ms' = IF ms.i < Len(margs.scales)
                     THEN [ms EXCEPT !.pc = "loop", !.i = @ + 1]
                     ELSE [ms EXCEPT !.pc = "returned"]
    /\ UNCHANGED <<mcol, mheap, margs, notMulti>>

NextMulti ==
    \/ \E scales \in ScaleLists, auto \in BOOLEAN, residual \in BOOLEAN,
          morphology \in Morphologies, width \in {None, Num(1)} :
          compute_ts_image_multiscale(scales, [auto |-> auto, factor |-> 2], residual,
                                      morphology, width)
    \/ scale_prepare
    \/ scale_estimate

SpecMulti == InitMulti /\ [][NextMulti]_vars

(***************************************************************************)
(* compute_maximum_ts_image.                                               *)
(***************************************************************************)
\* The ts values of a pixel of a scale result: NaN, a small value and a value
\* float32 cannot hold.
TsValues == {NaN, Num(100), Num(16777217)}

\* The k-th scale result of a list: its ts image is given; its scale is 5 * k
\* (in units of BINSZ), and its amplitude and niter images tell the scale and
\* the pixel they come from.
ScaleResult(k, tsdata) ==
    [ts |-> tsdata,
     niter |-> [p \in Pixels(Shape) |-> Num(k)],
     amplitude |-> [p \in Pixels(Shape) |-> Num(10 * k + p[2])],
     scale |-> 5 * k,
     morphology |-> "Gaussian2D"]

\* The lists of n scale results.
ResultLists(n) ==
    {[k \in 1..n |-> ScaleResult(k, f[k])] : f \in [1..n -> [Pixels(Shape) -> TsValues]]}

InitMax ==
    /\ RunIdle
    /\ SolverIdle
    /\ MultiIdle
    /\ ModelsIdle
    /\ StoreIdle
    /\ PosIdle
    /\ \E n \in 0..MaxScales : mxin \in ResultLists(n)
    /\ mx = [NoMax EXCEPT !.pc = "new"]
    /\ mxout = <<>>

\* np.nanmax in the place of np.max: the NaN values are left out.
npnanmax(values) ==
    LET numbers == {x \in values : ~isnan(x)}
    IN  IF numbers = {} THEN NaN
        ELSE CHOOSE x \in numbers : \A y \in numbers : ~FLt(x, y)

\* np.max over the values of a pixel along the scale axis: NaN if one is NaN.
npmax(values) ==
    IF \E x \in values : isnan(x) THEN NaN
    ELSE CHOOSE x \in values : \A y \in values : ~FLt(x, y)

\* a == b on floats: never true of a NaN.
FEq(a, b) == ~isnan(a) /\ ~isnan(b) /\ a = b

\* ndarray.astype('float32') of a value: an integer beyond 2 ** 24 is rounded
\* to the nearest even multiple of 2 (values below 2 ** 25).
astype_float32(x) ==
    IF x.k # "num" THEN x
    ELSE LET a == IF x.v < 0 THEN -x.v ELSE x.v
             q == a \div 2
             r == IF a < 16777216 \/ a % 2 = 0 THEN a
                  ELSE IF q % 2 = 0 THEN 2 * q ELSE 2 * (q + 1)
         IN  Num(IF x.v < 0 THEN -r ELSE r)

\* ndarray.astype('int16') of a number: wrapped to 16 bits.
astype_int16(x) == Num(((x.v + 32768) % 65536) - 32768)

\* compute_maximum_ts_image, lines 385-394: the stacks, ts_max and the zero
\* arrays.  np.dstack of an empty list raises ValueError.
max_begin ==
    /\ mx.pc = "new"
    /\ IF mxin = <<>>
       THEN mx' = [mx EXCEPT !.pc = "raised", !.err = "ValueError"]
       ELSE mx' = [pc |-> "loop", idx_scale |-> 1,
                   ts_max |-> [p \in Pixels(Shape) |->
                                 npmax({mxin[k].ts[p] : k \in DOMAIN mxin})],
                   scale_max |-> [p \in Pixels(Shape) |-> Num(0)],
                   niter_max |-> [p \in Pixels(Shape) |-> Num(0)],
                   amplitude_max |-> [p \in Pixels(Shape) |-> Num(0)],
                   err |-> ""]
    /\ UNCHANGED <<mxin, mxout, notMax>>

\* The pass of the loop writing only the pixels no earlier scale has written.
max_step_keep_first ==
    /\ mx.pc = "loop"
    /\ mx.idx_scale <= Len(mxin)
    /\ LET result == mxin[mx.idx_scale]
           index == {p \in Pixels(Shape) :
                       FEq(result.ts[p], mx.ts_max[p]) /\ mx.scale_max[p] = Num(0)}
       IN  mx' = [mx EXCEPT
                    !.idx_scale = @ + 1,
                    !.scale_max = [p \in Pixels(Shape) |->
                                     IF p \in index THEN Num(result.scale) ELSE @[p]],
                    !.niter_max = [p \in Pixels(Shape) |->
                                     IF p \in index THEN result.niter[p] ELSE @[p]],
                    !.amplitude_max = [p \in Pixels(Shape) |->
                                         IF p \in index THEN result.amplitude[p] ELSE @[p]]]
    /\ UNCHANGED <<mxin, mxout, notMax>>

\* One pass of the loop of lines 396-400, for the scale at idx_scale.
max_step ==
    /\ mx.pc = "loop"
    /\ mx.idx_scale <= Len(mxin)
    /\ LET result == mxin[mx.idx_scale]
           index == {p \in Pixels(Shape) : FEq(result.ts[p], mx.ts_max[p])}
       IN  mx' = [mx EXCEPT
                    !.idx_scale = @ + 1,
                    !.scale_max = [p \in Pixels(Shape) |->
                                     IF p \in index THEN Num(result.scale) ELSE @[p]],
                    !.niter_max = [p \in Pixels(Shape) |->
                                     IF p \in index THEN result.niter[p] ELSE @[p]],
                    !.amplitude_max = [p \in Pixels(Shape) |->
                                         IF p \in index THEN result.amplitude[p] ELSE @[p]]]
    /\ UNCHANGED <<mxin, mxout, notMax>>

\* Lines 402-409: the returned collection.
max_return ==
    /\ mx.pc = "loop"
    /\ mx.idx_scale > Len(mxin)
    /\ mx' = [mx EXCEPT !.pc = "returned"]
    /\ mxout' = [ts |-> [p \in Pixels(Shape) |-> astype_float32(mx.ts_max[p])],
                 niter |-> [p \in Pixels(Shape) |-> astype_int16(mx.niter_max[p])],
                 amplitude |-> [p \in Pixels(Shape) |-> astype_float32(mx.amplitude_max[p])],
                 meta |-> [MORPH |-> mxin[1].morphology]]
    /\ UNCHANGED <<mxin, notMax>>

NextMax ==
    \/ max_begin
    \/ max_step
    \/ max_return

SpecMax == InitMax /\ [][NextMax]_vars

(***************************************************************************)
(* Models (gammapy/modeling/models/core.py).                               *)
(***************************************************************************)
\* The longest list a collection is grown to.
MaxModels == 3

\* The model objects: two sky models named "a", one named "b", and a model
\* that is neither a SkyModel nor a SkyDiffuseCube.
ModelPool ==
    {[id |-> 1, name |-> "a", sky |-> TRUE], [id |-> 2, name |-> "b", sky |-> TRUE],
     [id |-> 3, name |-> "a", sky |-> TRUE], [id |-> 4, name |-> "c", sky |-> FALSE]}

\* The lists of at most n models.
ModelLists(n) == UNION {[1..k -> ModelPool] : k \in 0..n}

\* The keys of item assignment and deletion: an int or a str.
Keys ==
    [t : {"int"}, v : 0..MaxModels] \cup [t : {"str"}, v : {"a", "b", "zz"}]

\* Models.names
names(list) == [k \in DOMAIN list |-> list[k].name]

\* The test of lines 153-157: the first name met twice raises.
Unique(list) == \A i, j \in DOMAIN list : i # j => list[i].name # list[j].name

InitModels ==
    /\ RunIdle
    /\ SolverIdle
    /\ MultiIdle
    /\ MaxIdle
    /\ StoreIdle
    /\ PosIdle
    /\ \E x \in ModelLists(2) : lheap = [r \in {"x", "own"} |-> IF r = "x" THEN x ELSE <<>>]
    /\ mods = ""
    /\ mlast = NoOp

\* Models.__init__, lines 140-161.  arg.t is "none", "model", "list" (the
\* caller's list x), "models" (a Models built from x, whose _models is x) or
\* "other" (an object of another type).
Models__init__(arg) ==
    /\ mods = ""
    /\ LET models == IF arg.t = "none" THEN <<>>
                     ELSE IF arg.t = "model" THEN <<arg.model>>
                     ELSE lheap["x"]
       IN  IF arg.t = "other"
           THEN mlast' = [op |-> "__init__", raised |-> "TypeError", result |-> <<>>]
                /\ UNCHANGED <<lheap, mods>>
           ELSE IF ~Unique(models)
           THEN mlast' = [op |-> "__init__", raised |-> "ValueError", result |-> <<>>]
                /\ UNCHANGED <<lheap, mods>>
           ELSE /\ mlast' = [op |-> "__init__", raised |-> "", result |-> <<>>]
                /\ mods' = IF arg.t \in {"list", "models"} THEN "x" ELSE "own"
                /\ lheap' = IF arg.t \in {"list", "models"} THEN lheap
                            ELSE [lheap EXCEPT !["own"] = models]
    /\ UNCHANGED notModels

\* list.insert(idx, model) for idx >= 0
ListInsert(list, idx, model) ==
    LET i == Min(idx, Len(list))
    IN  SubSeq(list, 1, i) \o <<model>> \o SubSeq(list, i + 1, Len(list))

\* Models.insert, lines 333-337, as a function of the list: the list after the
\* call and the exception raised.
insert_(list, idx, model) ==
    IF \E k \in DOMAIN list : list[k].name = model.name
    THEN [list |-> list, raised |-> "ValueError"]
    ELSE [list |-> ListInsert(list, idx, model), raised |-> ""]

\* Models.insert
insert(idx, model) ==
    /\ mods # ""
    /\ Len(lheap[mods]) < MaxModels
    /\ LET r == insert_(lheap[mods], idx, model)
       IN  /\ lheap' = [lheap EXCEPT ![mods] = r.list]
           /\ mlast' = [op |-> "insert", raised |-> r.raised, result |-> <<>>]
    /\ UNCHANGED <<mods, notModels>>

\* MutableSequence.append: self.insert(len(self), value)
append(model) ==
    /\ mods # ""
    /\ Len(lheap[mods]) < MaxModels
    /\ LET r == insert_(lheap[mods], Len(lheap[mods]), model)
       IN  /\ lheap' = [lheap EXCEPT ![mods] = r.list]
           /\ mlast' = [op |-> "append", raised |-> r.raised, result |-> <<>>]
    /\ UNCHANGED <<mods, notModels>>

\* MutableSequence.extend: for v in values: self.append(v); the first append
\* that raises ends the loop.
RECURSIVE extend_(_, _)
extend_(list, values) ==
    IF values = <<>> THEN [list |-> list, raised |-> ""]
    ELSE LET r == insert_(list, Len(list), Head(values))
         IN  IF r.raised # "" THEN r ELSE extend_(r.list, Tail(values))

extend(values) ==
    /\ mods # ""
    /\ Len(lheap[mods]) + Len(values) <= MaxModels
    /\ LET r == extend_(lheap[mods], values)
       IN  /\ lheap' = [lheap EXCEPT ![mods] = r.list]
           /\ mlast' = [op |-> "extend", raised |-> r.raised, result |-> <<>>]
    /\ UNCHANGED <<mods, notModels>>

\* Models.index, lines 339-347, for an int or str key: the 0-based index, or
\* the ValueError of list.index for a name that is not there.
index(list, key) ==
    IF key.t = "int" THEN [i |-> key.v, raised |-> ""]
    ELSE IF \E k \in DOMAIN list : list[k].name = key.v
    THEN [i |-> (CHOOSE k \in DOMAIN list :
                   list[k].name = key.v
                   /\ \A j \in DOMAIN list : list[j].name = key.v => k <= j) - 1,
          raised |-> ""]
    ELSE [i |-> 0, raised |-> "ValueError"]

\* Models.__setitem__, lines 325-331
__setitem__(key, model) ==
    /\ mods # ""
    /\ LET list == lheap[mods]
           at == index(list, key)
       IN  IF ~model.sky
           THEN mlast' = [op |-> "__setitem__", raised |-> "TypeError", result |-> <<>>]
                /\ lheap' = lheap
           ELSE IF at.raised # ""
           THEN mlast' = [op |-> "__setitem__", raised |-> at.raised, result |-> <<>>]
                /\ lheap' = lheap
           ELSE IF at.i >= Len(list)
           THEN mlast' = [op |-> "__setitem__", raised |-> "IndexError", result |-> <<>>]
                /\ lheap' = lheap
           ELSE /\ mlast' = [op |-> "__setitem__", raised |-> "", result |-> <<>>]
                /\ lheap' = [lheap EXCEPT ![mods] = [list EXCEPT ![at.i + 1] = model]]
    /\ UNCHANGED <<mods, notModels>>

\* Models.__delitem__, lines 322-323
__delitem__(key) ==
    /\ mods # ""
    /\ LET list == lheap[mods]
           at == index(list, key)
       IN  IF at.raised # ""
           THEN mlast' = [op |-> "__delitem__", raised |-> at.raised, result |-> <<>>]
                /\ lheap' = lheap
           ELSE IF at.i >= Len(list)
           THEN mlast' = [op |-> "__delitem__", raised |-> "IndexError", result |-> <<>>]
                /\ lheap' = lheap
           ELSE /\ mlast' = [op |-> "__delitem__", raised |-> "", result |-> <<>>]
                /\ lheap' = [lheap EXCEPT ![mods] =
                               SubSeq(list, 1, at.i) \o SubSeq(list, at.i + 2, Len(list))]
    /\ UNCHANGED <<mods, notModels>>

\* Models.__add__, lines 309-317: other.t is "list" (a list or a Models, with
\* its models), "model" or "other".  The new collection has a list of its own.
__add__(other) ==
    /\ mods # ""
    /\ LET list == lheap[mods]
           joined == IF other.t = "list" THEN list \o other.models
                     ELSE list \o <<other.model>>
           raised == IF other.t = "other" THEN "TypeError"
                     ELSE IF other.t = "model"
                             /\ \E k \in DOMAIN list : list[k].name = other.model.name
                     THEN "ValueError"
                     ELSE IF ~Unique(joined) THEN "ValueError" ELSE ""
       IN  mlast' = [op |-> "__add__", raised |-> raised,
                     result |-> IF raised = "" THEN joined ELSE <<>>]
    /\ UNCHANGED <<lheap, mods, notModels>>

\* The caller, after the construction, removes the last model of its list:
\* x.pop().
caller_pop ==
    /\ mods # ""
    /\ lheap["x"] # <<>>
    /\ lheap' = [lheap EXCEPT !["x"] = SubSeq(@, 1, Len(@) - 1)]
    /\ mlast' = [op |-> "x.pop", raised |-> "", result |-> <<>>]
    /\ UNCHANGED <<mods, notModels>>

NoModel == [id |-> 0, name |-> "", sky |-> FALSE]

NextModels ==
    \/ \E t \in {"none", "model", "list", "models", "other"}, m \in ModelPool :
          Models__init__([t |-> t, model |-> m])
    \/ \E idx \in 0..MaxModels, m \in ModelPool : insert(idx, m)
    \/ \E m \in ModelPool : append(m)
    \/ \E values \in ModelLists(2) : extend(values)
    \/ \E key \in Keys, m \in ModelPool : __setitem__(key, m)
    \/ \E key \in Keys : __delitem__(key)
    \/ \E other \in [t : {"list"}, models : ModelLists(2), model : {NoModel}]
                    \cup [t : {"model", "other"}, models : {<<>>}, model : ModelPool] :
          __add__(other)
    \/ caller_pop

SpecModels == InitModels /\ [][NextModels]_vars

(***************************************************************************)
(* DataStore.obs_list (gammapy/data/data_store.py).                        *)
(***************************************************************************)
\* The most ids one call asks for; the ids are 1..MaxObs.
MaxObs == 3

\* The lists of at most n observation ids.
ObsIdLists(n) == UNION {[1..k -> 1..MaxObs] : k \in 0..n}

\* DataStore.obs, line 150: DataStoreObservation(obs_id=int(obs_id),
\* data_store=self).  The constructor raises ValueError for an id that is not
\* in the index tables.
obs(id) ==
    IF id \in obs_table THEN [raised |-> "", obs |-> [obs_id |-> id]]
    ELSE [raised |-> "ValueError", obs |-> [obs_id |-> 0]]

InitStore ==
    /\ RunIdle
    /\ SolverIdle
    /\ MultiIdle
    /\ MaxIdle
    /\ ModelsIdle
    /\ PosIdle
    /\ obs_table \in SUBSET (1..MaxObs)
    /\ \E n \in 0..MaxObs : obs_id \in ObsIdLists(n)
    /\ skip_missing \in BOOLEAN
    /\ spc = ""
    /\ sidx = 0
    /\ obslist = <<>>
    /\ slog = <<>>
    /\ sret = <<>>

\* obs_list, line 167: obslist = ObservationList()
obs_list_begin ==
    /\ spc = ""
    /\ spc' = "loop"
    /\ obslist' = <<>>
    /\ UNCHANGED <<obs_table, obs_id, skip_missing, sidx, slog, sret, notStore>>

\* The loop with break in place of continue: an unavailable id ends it.
obs_list_step_break ==
    /\ spc = "loop"
    /\ sidx < Len(obs_id)
    /\ LET r == obs(obs_id[sidx + 1])
       IN  IF r.raised = ""
           THEN /\ obslist' = Append(obslist, r.obs)
                /\ sidx' = sidx + 1
                /\ UNCHANGED <<spc, slog>>
           ELSE IF skip_missing
           THEN /\ slog' = Append(slog, obs_id[sidx + 1])
                /\ sidx' = Len(obs_id)
                /\ UNCHANGED <<spc, obslist>>
           ELSE /\ spc' = r.raised
                /\ UNCHANGED <<sidx, obslist, slog>>
    /\ UNCHANGED <<obs_table, obs_id, skip_missing, sret, notStore>>

\* obs_list, lines 168-180: one pass of the loop
obs_list_step ==
    /\ spc = "loop"
    /\ sidx < Len(obs_id)
    /\ LET r == obs(obs_id[sidx + 1])
       IN  IF r.raised = ""
           THEN /\ obslist' = Append(obslist, r.obs)
                /\ sidx' = sidx + 1
                /\ UNCHANGED <<spc, slog>>
           ELSE IF skip_missing
           THEN /\ slog' = Append(slog, obs_id[sidx + 1])
                /\ sidx' = sidx + 1
                /\ UNCHANGED <<spc, obslist>>
           ELSE /\ spc' = r.raised
                /\ UNCHANGED <<sidx, obslist, slog>>
    /\ UNCHANGED <<obs_table, obs_id, skip_missing, sret, notStore>>

\* obs_list, line 181: return obslist
obs_list_return ==
    /\ spc = "loop"
    /\ sidx = Len(obs_id)
    /\ spc' = "returned"
    /\ sret' = obslist
    /\ UNCHANGED <<obs_table, obs_id, skip_missing, sidx, obslist, slog, notStore>>

NextStore == obs_list_begin \/ obs_list_step \/ obs_list_return

SpecStore == InitStore /\ [][NextStore]_vars

(***************************************************************************)
(* _get_positions, called on masks of several rows with kernels that need  *)
(* not be square.                                                          *)
(***************************************************************************)
\* The longest side of a mask.
MaxSide == 3

\* Odd-sized kernel shapes (rows, columns).
OddKernelShapes == {<<1, 1>>, <<1, 3>>, <<3, 1>>, <<3, 3>>}

InitPos ==
    /\ RunIdle
    /\ SolverIdle
    /\ MultiIdle
    /\ MaxIdle
    /\ ModelsIdle
    /\ StoreIdle
    /\ \E h, w \in 1..MaxSide :
          /\ pshape = <<h, w>>
          /\ pmask \in [Pixels(<<h, w>>) -> BOOLEAN]
    /\ pkernel \in OddKernelShapes
    /\ ppos = <<>>
    /\ ppc = ""
    /\ pslices = <<>>

\* positions = self._get_positions(mask, kernel.shape)
get_positions ==
    /\ ppc = ""
    /\ ppos' = _get_positions(pmask, pshape, pkernel)
    /\ ppc' = "returned"
    /\ UNCHANGED <<pshape, pmask, pkernel, pslices, notPos>>

\* An image of the mask's shape whose value at a pixel is the pixel itself.
Coordinates(shape) == [p \in Pixels(shape) |-> p]

\* _ts_value, lines 439-442: the slice taken around each position, here
\* from the image of coordinates.
extract_slices ==
    /\ ppc = "returned"
    /\ pslices' = [k \in DOMAIN ppos |->
                      _extract_array(Coordinates(pshape), pshape, pkernel, ppos[k])]
    /\ ppc' = "sliced"
    /\ UNCHANGED <<pshape, pmask, pkernel, ppos, notPos>>

NextPos == get_positions \/ extract_slices

SpecPos == InitPos /\ [][NextPos]_vars

(***************************************************************************)
(* Properties of TSImageEstimator.run.                                     *)
(***************************************************************************)
\* The input is structurally valid: the three images are present and have one
\* shape.
ValidInput ==
    /\ \A n \in Required : images[n] # ""
    /\ heap[images["counts"]].shape = heap[images["background"]].shape
    /\ heap[images["counts"]].shape = heap[images["exposure"]].shape

Finished == pc \in {"returned", "raised"}

\* The pixels of the input with exposure > 0 and background == 0.
Anomalous ==
    {p \in Pixels(Shape) :
        heap[images["exposure"]].data[p] > 0 /\ heap[images["background"]].data[p] = 0}

\* C1: with a threshold configured, run returns, and at every candidate pixel
\* whose gap c_0 - f_cash(start value) is below the threshold the returned
\* images hold niter == 0 and ts equal to that gap.
C1_ThresholdShortCircuit ==
    (est.threshold # None /\ ValidInput /\ Finished /\ positions # <<>>)
    => /\ pc = "returned"
       /\ \A k \in DOMAIN positions :
            LET key == SliceKey(positions[k])
                gap == FSub(SumFloat(_extract_array(c_0_image.data, c_0_image.shape,
                                                    est.kernel.shape, positions[k]).data,
                                     DOMAIN key[1]),
                            f_cash(flux.data[positions[k]], key[1], key[2], key[3]))
            IN  FLt(gap, est.threshold)
                => /\ out["niter"].data[positions[k]] = Num(0)
                   /\ out["ts"].data[positions[k]] = gap

\* C3: two runs on the same input with the same arguments, one with
\* parallel=True and one with parallel=False, both return, and return the same
\* images.
C3_ParallelSerialSame ==
    (prev.set /\ Finished /\ ValidInput)
    => /\ prev.pc = "returned"
       /\ pc = "returned"
       /\ out = prev.out

\* C5: no step of the estimator changes the caller's counts, background or
\* exposure array.
C5_InputsUnchanged ==
    [][\A r \in CallerRefs : heap'[r] = heap[r]]_vars

\* A run has returned after _get_mask zeroed exposure in its own array, which now
\* differs from the caller's.
C5_Witness ==
    /\ pc = "returned"
    /\ warned
    /\ heap[work.exposure] # heap[images["exposure"]]
    /\ \E p \in Pixels(Shape) : heap[images["exposure"]].data[p] > 0
                                 /\ heap[work.exposure].data[p] = 0

\* C6: once the mask is built, every pixel that had exposure > 0 and background
\* == 0 has exposure 0 in the run's array and a warning was logged if there is
\* one; the mask is exactly exposure > 0 after the correction; no anomalous
\* pixel is a position; and the run has not raised in building the mask (an
\* exception, if any, is one of a later step).
C6_AnomalyCorrected ==
    mask # NoArray =>
        /\ \A p \in Anomalous : heap[work.exposure].data[p] = 0
        /\ Anomalous # {} => warned
        /\ \A p \in Pixels(Shape) : mask.data[p] = (heap[work.exposure].data[p] > 0)
        /\ \A k \in DOMAIN positions : positions[k] \notin Anomalous /\ mask.data[positions[k]]
        /\ pc = "raised" => err \in {"NameError", "TypeError", "ValueError", "KeyError"}

\* The mask was built for an input with an anomalous pixel and another pixel
\* that stays a candidate.
C6_Witness ==
    /\ pc = "map"
    /\ Anomalous # {}
    /\ warned
    /\ positions # <<>>

\* C7: with structurally valid input a run never raises, whatever the solver
\* outcomes and however many positions there are; and in what it returns, the
\* ts, flux and flux_err of a position are NaN when its amplitude is NaN, and are
\* otherwise the values of that position's own fit.
C7_RunNeverRaises ==
    ValidInput =>
        /\ pc # "raised"
        /\ pc = "returned" =>
             \A k \in DOMAIN positions :
                LET o == oracle[SliceKey(positions[k])]
                    own == _ts_value(positions[k], heap[work.counts], heap[work.exposure],
                                     heap[work.background], c_0_image, est.kernel, flux,
                                     est.method, est.threshold, o)
                IN  /\ out["ts"].data[positions[k]] = own.ts
                    /\ out["flux"].data[positions[k]] = own.flux
                    /\ out["flux_err"].data[positions[k]] = own.flux_err
                    /\ isnan(own.flux) => /\ isnan(out["ts"].data[positions[k]])
                                          /\ isnan(out["flux_err"].data[positions[k]])

\* C10: whatever `which` is ('all' or a non-empty subset of the six names), a
\* run whose positions were all evaluated returns, and the collection holds
\* the requested images, each of the counts image's shape.  (Stated for runs
\* that have positions and whose map is a list, so that only `which` decides.)
C10_WhichImages ==
    (/\ Finished
     /\ positions # <<>>
     /\ \A k \in DOMAIN results : results[k].kind = "dict"
     /\ ~(py3 /\ ~est.parallel))
    => /\ pc = "returned"
       /\ DOMAIN out = (IF which.all THEN AllNames ELSE which.names)
       /\ \A n \in DOMAIN out : out[n].shape = heap[images["counts"]].shape

(***************************************************************************)
(* Properties of the amplitude solvers.                                    *)
(***************************************************************************)
min_total == _amplitude_bounds_cython(call.counts, call.background, call.model).amplitude_min_total

\* C2: on a slice whose counts sum to 0, each of the three solvers returns the
\* amplitude min_total of the bounds routine and niter == 0, and no search was
\* run.
C2_ZeroCountFloor ==
    (fit # NoFit /\ SumInt(call.counts, DOMAIN call.counts) = 0)
    => /\ fit.amplitude = Num(min_total)
       /\ fit.niter = 0
       /\ outcome.kind = "none"

\* C8: when the search of a solver fails to bracket or to converge within
\* MAX_NITER, the amplitude returned is NaN and niter is MAX_NITER, and the ts
\* and flux derived from it are NaN, for each of the three solvers.
C8_FailureGivesNaN ==
    (fit # NoFit /\ outcome.kind \in {"noconverge", "nobracket"})
    => /\ isnan(fit.amplitude)
       /\ fit.niter = MAX_NITER
       /\ isnan(fit.ts)
       /\ isnan(fit.flux)

\* C9: every amplitude a solver returns that is not NaN is at least min_total,
\* for each of the three solvers.
C9_AmplitudeAboveFloor ==
    (fit # NoFit /\ ~isnan(fit.amplitude)) => fit.amplitude.v >= min_total

(***************************************************************************)
(* Properties of compute_ts_image_multiscale.                              *)
(***************************************************************************)
\* C4: in residual mode, with a model image in the collection and a known
\* morphology, the driver returns having handed the estimator, for every scale
\* of the list, a background equal to the resampled input background plus the
\* resampled input model image.
C4_ResidualAddedOnce ==
    (/\ ms.pc \in {"returned", "raised"}
     /\ margs.residual
     /\ "model" \in ElemsOf(mcol)
     /\ margs.morphology = "Gaussian2D")
    => /\ ms.pc = "returned"
       /\ Len(handed) = Len(margs.scales)
       /\ \A i \in DOMAIN handed :
            LET f == IF margs.downsample.auto THEN AutoFactor(margs.scales[i])
                     ELSE margs.downsample.factor
            IN  handed[i].background =
                    AddData(Prepared(MInput("background"), IndexOf(mcol, "background"),
                                     f, f # 1),
                            Prepared(MInput("model"), IndexOf(mcol, "model"), f, f # 1))

(***************************************************************************)
(* Properties of compute_maximum_ts_image.                                 *)
(***************************************************************************)
\* The pixels at which no scale of the list has a NaN ts.
AllNumbers == {p \in Pixels(Shape) : \A k \in DOMAIN mxin : ~isnan(mxin[k].ts[p])}

\* The scales of the list whose ts at pixel p is the largest of the list; none
\* where a ts of the pixel is NaN.
Attaining(p) ==
    {k \in DOMAIN mxin :
        /\ p \in AllNumbers
        /\ \A j \in DOMAIN mxin : mxin[j].ts[p].v <= mxin[k].ts[p].v}

C19_LastTieWins ==
    mx.pc = "returned"
    => \A p \in Pixels(Shape) :
         Cardinality(Attaining(p)) >= 2
         => LET last == CHOOSE k \in Attaining(p) : \A j \in Attaining(p) : j <= k
            IN  /\ mx.scale_max[p] = Num(mxin[last].scale)
                /\ mxout.niter[p] = astype_int16(mxin[last].niter[p])
                /\ mxout.amplitude[p] = astype_float32(mxin[last].amplitude[p])

\* The reduction has returned for a list in which a pixel has the same
\* largest ts in two scales.
C19_Witness ==
    /\ mx.pc = "returned"
    /\ \E p \in Pixels(Shape) : Cardinality(Attaining(p)) >= 2

(***************************************************************************)
(* Properties of the ts of a fit.                                          *)
(***************************************************************************)
\* c_0 - c_1 of the solver call: the statistic of the background alone minus
\* the statistic at the fitted amplitude (lines 446, 465).
fit_gap ==
    FSub(SumFloat(_cash_cython(call.counts, call.background), DOMAIN call.counts),
         f_cash(fit.amplitude, call.counts, call.background, call.model))

\* C12 as stated: whenever the fitted amplitude is not NaN, the ts is negative
\* if the amplitude is negative and positive otherwise.
C12_SignConvention ==
    (fit # NoFit /\ ~isnan(fit.amplitude))
    => IF fit.amplitude.v < 0 THEN FLt(fit.ts, Num(0)) ELSE FLt(Num(0), fit.ts)

\* C12, amended: whenever the fitted amplitude is not NaN and the fit improves
\* on the null hypothesis (c_0 - c_1 > 0), the ts is negative if the amplitude
\* is negative, positive if it is positive and 0 if it is 0; in every case the
\* ts is (c_0 - c_1) * sign(amplitude).
C12_SignConventionAmended ==
    (fit # NoFit /\ ~isnan(fit.amplitude))
    => /\ fit.ts = FMul(fit_gap, sign(fit.amplitude))
       /\ FLt(Num(0), fit_gap)
          => /\ fit.amplitude.v < 0 => FLt(fit.ts, Num(0))
             /\ fit.amplitude.v > 0 => FLt(Num(0), fit.ts)
             /\ fit.amplitude.v = 0 => fit.ts = Num(0)

\* A fit with a negative amplitude that improves on the null hypothesis.
C12_Witness ==
    /\ fit # NoFit
    /\ ~isnan(fit.amplitude)
    /\ fit.amplitude.v < 0
    /\ FLt(Num(0), fit_gap)
    /\ FLt(fit.ts, Num(0))

(***************************************************************************)
(* Properties of the images run returns.                                   *)
(***************************************************************************)
\* np.abs
fabs(x) == IF x.k = "nan" THEN NaN ELSE [k |-> x.k, v |-> IF x.v < 0 THEN -x.v ELSE x.v]

\* C13: in every collection run returns that holds sqrt_ts, at every pixel
\* sqrt_ts is sign(ts) * sqrt(|ts|), and sqrt_ts is NaN exactly where ts is.
C13_SqrtTsIdentity ==
    (pc = "returned" /\ "sqrt_ts" \in DOMAIN out)
    => \A p \in Pixels(Shape) :
         /\ out["sqrt_ts"].data[p] = FMul(sign(out["ts"].data[p]),
                                          sqrt(fabs(out["ts"].data[p])))
         /\ isnan(out["sqrt_ts"].data[p]) <=> isnan(out["ts"].data[p])

\* A run has returned sqrt_ts for a ts image with a negative value at one pixel
\* and NaN at another.
C13_Witness ==
    /\ pc = "returned"
    /\ "sqrt_ts" \in DOMAIN out
    /\ \E p, q \in Pixels(Shape) :
          /\ FLt(out["ts"].data[p], Num(0))
          /\ FLt(out["sqrt_ts"].data[p], Num(0))
          /\ isnan(out["ts"].data[q])

(***************************************************************************)
(* Properties of the construction and of the required images.              *)
(***************************************************************************)
\* C14: every construction with a method other than 'root brentq', 'root
\* newton' and 'leastsq iter' raises ValueError and leaves no parameter set and
\* no estimator to run; every construction with one of the three gives an
\* estimator with the parameters passed.
C14_InvalidMethodRaises ==
    [][\A kshape \in KernelShapes, method \in Methods \cup {"root"},
          parallel \in BOOLEAN, threshold \in Thresholds :
          __init__(Kernel(kshape), method, parallel, threshold)
          => IF method \in Methods
             THEN /\ pc' = "idle"
                  /\ err' = ""
                  /\ est' = [kernel |-> Kernel(kshape), method |-> method,
                             parallel |-> parallel, threshold |-> threshold]
             ELSE /\ pc' = "init_raised"
                  /\ err' = "ValueError"
                  /\ est'.method = NoEstimator.method
                  /\ est'.parallel = NoEstimator.parallel
                  /\ est'.threshold = NoEstimator.threshold]_vars

\* A construction with an unknown method has raised ValueError.
C14_Witness ==
    /\ pc = "init_raised"
    /\ err = "ValueError"
    /\ est.method = ""

\* C15: when one of counts, background and exposure is missing from the
\* collection, or the three arrays do not have one shape, a run raises and
\* returns nothing, and it raises before the null statistic, the mask or any
\* pixel is computed.
C15_InvalidInputFails ==
    ~ValidInput
    => /\ pc \in {"new", "init_raised", "idle", "raised"}
       /\ pc = "raised" => err \in {"MissingImage", "AssertionError"}
       /\ c_0_image = NoArray
       /\ mask = NoArray
       /\ results = <<>>
       /\ out = <<>>

\* A run on a collection whose exposure image has another shape has raised.
C15_Witness ==
    /\ pc = "raised"
    /\ err = "AssertionError"
    /\ ~ValidInput

\* The value _ts_value computes at the k-th position.
Computed(k) ==
    _ts_value(positions[k], heap[work.counts], heap[work.exposure], heap[work.background],
              c_0_image, est.kernel, flux, est.method, est.threshold,
              oracle[SliceKey(positions[k])])

\* C18: in parallel mode, whatever the order the workers finish in, nothing is
\* assembled while a position's result is outstanding; no coordinate is a
\* position twice; and in the collection run returns each stored image holds,
\* at the k-th position, the value computed for that position, and NaN at
\* every pixel that is no position.
C18_ParallelAssembly ==
    est.parallel =>
        /\ (\E k \in DOMAIN results : results[k] = Pending) => (pc # "returned" /\ out = <<>>)
        /\ pc \in {"map", "returned"} =>
              \A k, l \in DOMAIN positions : k # l => positions[k] # positions[l]
        /\ pc = "returned" =>
              /\ DOMAIN results = DOMAIN positions
              /\ \A k \in DOMAIN positions : results[k] = Computed(k)
              /\ \A n \in DOMAIN out \ {"sqrt_ts"} :
                    /\ \A k \in DOMAIN positions :
                          out[n].data[positions[k]] =
                             IF n = "niter" THEN Num(results[k].niter) ELSE results[k][n]
                    /\ \A p \in Pixels(out[n].shape) :
                          (\A k \in DOMAIN positions : positions[k] # p) => out[n].data[p] = NaN

\* C18: a parallel run over two positions with different results has returned.
C18_Witness ==
    /\ est.parallel
    /\ pc = "returned"
    /\ Len(positions) = 2
    /\ results[1].ts # results[2].ts
    /\ results[1].flux # results[2].flux
    /\ out["ts"].data[positions[1]] # out["ts"].data[positions[2]]

\* C22: with method 'root newton' a run on valid input computes the seed flux
\* image (it does not fail on the way to it) and the workers are handed that
\* image; with the other methods they are handed none.
C22_NewtonSeedImage ==
    /\ (est.method = "root newton" /\ ValidInput /\ pc \in {"map", "returned", "raised"}) =>
          /\ err # "NameError"
          /\ pc \in {"map", "returned"} => flux # NoArray
    /\ (est.method # "root newton" /\ pc \in {"map", "returned"}) => flux = NoArray

\* The block reduction of the caller's image of a name with a function.
Reduced(name, func) ==
    LET image == mheap[[own |-> "in", name |-> name]]
    IN  downsample(pad(image, symmetric_crop_pad_width(image.shape, shape_2N(image.shape))),
                   ms.factor, func)

\* C23: when a scale is downsampled, counts and background are block-reduced
\* with sum and exposure with mean, whatever the order of the images in the
\* collection.  (Stated before the residual model is added to the background.)
C23_ReduceByName ==
    (ms.pc = "call" /\ ms.downsampled /\ ~margs.residual) =>
        \A n \in {"counts", "background", "exposure"} :
            mheap[[own |-> "s", name |-> n]] =
                Reduced(n, IF n = "exposure" THEN "mean" ELSE "nansum")

\* The scale of the pass in progress, in units of BINSZ.
ThisScale == margs.scales[ms.i]

C25_UpsampledResults ==
    ms.downsampled =>
        /\ ms.err # "NameError"
        /\ ms.pc = "returned" => Len(handed) = Len(margs.scales)

\* A candidate: a pixel exposed after the anomaly correction that the kernel
\* fits around.
Candidate(p) ==
    /\ heap[work.exposure].data[p] > 0
    /\ est.kernel.shape[1] \div 2 <= p[1]
    /\ p[1] < heap[work.exposure].shape[1] - (est.kernel.shape[1] \div 2)
    /\ est.kernel.shape[2] \div 2 <= p[2]
    /\ p[2] < heap[work.exposure].shape[2] - (est.kernel.shape[2] \div 2)

C27_CallerImagesUnchanged ==
    ms.pc \in {"returned", "raised"} =>
        \A n \in ElemsOf(mcol) : mheap[[own |-> "in", name |-> n]] = MInput(n)

\* The scales whose ts at pixel p is a number and the largest of the numbers.
AttainingNumbers(p) ==
    {k \in DOMAIN mxin :
        /\ ~isnan(mxin[k].ts[p])
        /\ \A j \in DOMAIN mxin : ~isnan(mxin[j].ts[p]) => mxin[j].ts[p].v <= mxin[k].ts[p].v}

\* C28: at every pixel where at least one scale's ts is a number, the ts
\* returned is the largest of the numbers and niter and amplitude are those of
\* a scale attaining it: a NaN in another scale neither makes the pixel NaN
\* nor leaves niter and amplitude at 0.
C28_NaNScalesIgnored ==
    mx.pc = "returned" =>
        \A p \in Pixels(Shape) :
            AttainingNumbers(p) # {} =>
                \E k \in AttainingNumbers(p) :
                    /\ mxout.ts[p] = astype_float32(mxin[k].ts[p])
                    /\ mxout.amplitude[p] = astype_float32(mxin[k].amplitude[p])
                    /\ mxout.niter[p] = astype_int16(mxin[k].niter[p])

(***************************************************************************)
(* Properties of Models.                                                   *)
(***************************************************************************)
\* C16: after every operation on a Models collection (construction, insert,
\* append, extend, item assignment, deletion, +) the names of the models it
\* holds are pairwise distinct, and so are those of the collection + returned.
C16_NamesUnique ==
    /\ mods # "" => Unique(lheap[mods])
    /\ Unique(mlast.result)

(***************************************************************************)
(* Properties of DataStore.obs_list.                                       *)
(***************************************************************************)
Available(id) == id \in obs_table
Missing(id) == id \notin obs_table

\* C17: obs_list returns the observations of the available ids in the order
\* they were asked for.  With skip_missing every unavailable id is skipped
\* with a warning and the ids after it are still taken; without it the first
\* unavailable id makes the call raise ValueError and return no list.
C17_ObsListOrder ==
    /\ spc = "returned" =>
          /\ sret = [k \in DOMAIN SelectSeq(obs_id, Available) |->
                        [obs_id |-> SelectSeq(obs_id, Available)[k]]]
          /\ slog = SelectSeq(obs_id, Missing)
          /\ skip_missing \/ \A k \in DOMAIN obs_id : Available(obs_id[k])
    /\ spc = "ValueError" =>
          /\ ~skip_missing
          /\ \E k \in DOMAIN obs_id : Missing(obs_id[k])
          /\ sret = <<>>
    /\ (spc = "loop" /\ ~skip_missing /\ sidx < Len(obs_id)) =>
          \A k \in 1..sidx : Available(obs_id[k])
    /\ (~skip_missing /\ \E k \in DOMAIN obs_id : Missing(obs_id[k])) => spc # "returned"

\* C17: a call with skip_missing that met an unavailable id between two
\* available ones has returned.
C17_Witness ==
    /\ spc = "returned"
    /\ skip_missing
    /\ Len(obs_id) = 3
    /\ Available(obs_id[1]) /\ Missing(obs_id[2]) /\ Available(obs_id[3])
    /\ obs_id[1] # obs_id[3]
    /\ Len(sret) = 2

(***************************************************************************)
(* Properties of _get_positions.                                           *)
(***************************************************************************)
\* The pixels a kernel of shape (kh, kw) fits around, by rows and columns.
Inside(p) ==
    /\ pkernel[1] \div 2 <= p[1] /\ p[1] < pshape[1] - (pkernel[1] \div 2)
    /\ pkernel[2] \div 2 <= p[2] /\ p[2] < pshape[2] - (pkernel[2] \div 2)

\* C20: _get_positions returns exactly the pixels (row, col) where the mask
\* is set, kh//2 <= row < H - kh//2 and kw//2 <= col < W - kw//2, each once,
\* rows ascending and columns ascending within a row.
C20_PositionsExact ==
    ppc = "returned" =>
        /\ {ppos[k] : k \in DOMAIN ppos} = {p \in Pixels(pshape) : pmask[p] /\ Inside(p)}
        /\ \A k, l \in DOMAIN ppos :
              k < l => \/ ppos[k][1] < ppos[l][1]
                       \/ ppos[k][1] = ppos[l][1] /\ ppos[k][2] < ppos[l][2]

\* C20: a 1x3 kernel on a 3x3 mask with one of the fitting pixels masked out
\* gave two positions, in different rows.
C20_Witness ==
    /\ ppc = "returned"
    /\ pkernel = <<1, 3>>
    /\ pshape = <<3, 3>>
    /\ ~pmask[<<1, 1>>]
    /\ ppos = << <<0, 1>>, <<2, 1>> >>

\* C21: around every position _get_positions produced, for every odd-sized
\* kernel shape (kh, kw), the extracted slice has the kernel's shape, is
\* centred on the position and holds pixels of the image only.
C21_SliceHasKernelShape ==
    ppc = "sliced" =>
        \A k \in DOMAIN ppos :
            /\ pslices[k].shape = pkernel
            /\ \A q \in Pixels(pkernel) :
                  /\ q \in DOMAIN pslices[k].data
                  /\ pslices[k].data[q] = <<ppos[k][1] - (pkernel[1] \div 2) + q[1],
                                           ppos[k][2] - (pkernel[2] \div 2) + q[2]>>

\* C29: a Models operation that raises leaves the collection, and every list,
\* exactly as it was before the call; extend with a sequence one of whose
\* later elements has a duplicate name adds none of its elements.
C29_RaiseLeavesUnchanged ==
    [][mlast'.raised # "" => (mods' = mods /\ lheap' = lheap)]_vars

\* C30: a collection built from a list x, or from a Models holding x, owns its
\* sequence: no operation on the collection changes x, and a later mutation
\* of x by the caller does not change the collection.
C30_OwnsSequence ==
    [][mods # "" =>
          /\ mlast'.op # "x.pop" => lheap'["x"] = lheap["x"]
          /\ mlast'.op = "x.pop" => lheap'[mods'] = lheap[mods]]_vars

====
